---------------------------- MODULE Spec2Model ----------------------------
(***************************************************************************)
(* A model of the MCP client runtime of the chat CLI:                      *)
(*   - Client::request with its id allocation, response matching and       *)
(*     pagination (crates/chat-cli/src/mcp_client/client.rs),              *)
(*   - the dispatcher task spawned by Client::init and                     *)
(*     Client::handle_sampling_request,                                    *)
(*   - the chat loop of ChatSession: prompt, commands, tool approval and  *)
(*     execution, the sampling approval branch of handle_input             *)
(*     (crates/chat-cli/src/cli/chat/mod.rs),                              *)
(*   - the life cycle of the peer: the initialize handshake of             *)
(*     Client::init, its background tasks, the notifications and receive   *)
(*     errors of the dispatcher, Clone and Drop of the Client, and the     *)
(*     timeouts of Client::request,                                        *)
(*   - the prompt catalog under the prefetch task and the refetches of     *)
(*     the dispatcher (fetch_prompts_and_notify_with_messenger).           *)
(*                                                                         *)
(* JSON values are modelled by records of a fixed shape.  A field of a     *)
(* JSON object that may be absent, null or a string is one of Absent,      *)
(* JNull, JStr(s); Value::get(key) is Some for JNull and for JStr(s) and   *)
(* None only for Absent, as serde_json's Value::get is.                    *)
(*                                                                         *)
(* AtomicU64 counters are modelled as naturals: the model allocates at     *)
(* most MaxIds (MaxPageIds) ids per peer, far below 2^64, so fetch_add never wraps.     *)
(***************************************************************************)
EXTENDS Integers, Sequences, FiniteSets, TLC

(***************************************************************************)
(* Bounds of the model.                                                    *)
(***************************************************************************)
\* number of items in the list the server holds for a list method
MaxItems == 3
\* ids the peer allocates with two concurrent callers before the model stops allocating
MaxIds == 2
\* ids the peer allocates with one caller before the model stops allocating
MaxPageIds == 4
\* messages the server sends on its own (requests and notifications)
MaxUnsolicited == 1
\* requests the server sends to the client's dispatcher
MaxServerRequests == 2
\* lines the user enters at the chat prompt
MaxInputs == 3
\* requests the chat session sends to the model
MaxRequests == 2
\* lines and requests of a session without interrupts and failures
MaxTrustInputs == 4
MaxTrustRequests == 3
\* interrupts (Ctrl-C) the user sends
MaxInterrupts == 2
\* number of notifications the server sends to the dispatcher
MaxNotifications == 2
\* number of times the dispatcher's receiver lags behind the channel
MaxLagged == 1
\* number of clones of the Client the owner of the peer makes
MaxClones == 2

VARIABLES
    \* ---- Client::request ----
    current_id,     \* Client.current_id: the AtomicU64 shared by all clones
    req,            \* per calling task: the locals of its request call
    listener,       \* per calling task: its broadcast subscription
    pending,        \* requests the server has received and not answered
    server_end,     \* how this server marks its last page: nextCursor absent or null
    \* ---- history of the run (never read by the program) ----
    allocated,      \* the ids handed out by get_id, in allocation order
    sent,           \* the ids of the requests sent over the transport, in send order
    served,         \* the responses the server has sent
    overtaken,      \* the ids whose response was sent before that of an earlier request
    unsolicited,    \* how many messages the server has sent on its own
    \* ---- the dispatcher task and Client::handle_sampling_request ----
    disp_q,         \* the dispatcher's broadcast subscription
    disp,           \* the dispatcher: where it is, and the request it is handling
    outbox,         \* the responses the client has sent to the server, in order
    sampling_sender,\* Client.sampling_sender: "none", or the state of its channel
    sampling_chan,  \* the pending sampling requests queued for approval
    slot,           \* per server request id: the oneshot reply slot of its pending request
    held,           \* the pending requests a holder other than the chat session has taken
    server_reqs,    \* history: the requests the server has sent
    \* ---- the chat session ----
    chat_state,     \* ChatState
    chat_input,     \* the line carried by ChatState::HandleInput
    pending_sampling_requests,  \* ChatSession.pending_sampling_requests
    pending_sampling_index,     \* ChatSession.pending_sampling_index
    pending_tool_index,         \* ChatSession.pending_tool_index
    inputs,         \* how many lines the user has entered
    answers,        \* history: the lines the user entered at a sampling prompt, with
                    \* the request the prompt was about
    \* ---- the chat session: tools, conversation, model ----
    ctrl_c,         \* read_user_input: an end of input was already seen at this prompt
    tool_uses,      \* ChatSession.tool_uses: the queued tools
    tool_permissions,   \* ChatSession.tool_permissions
    history,        \* ConversationState: the messages of the conversation
    next_message,   \* ConversationState: the user message to send next
    response,       \* ChatState::HandleResponseStream(response): what the stream emits
    validating,     \* ChatState::ValidateTools(tool_uses)
    requests,       \* how many requests were sent to the model
    interrupts,     \* how many interrupts the user has sent
    turn,           \* history: the tool uses the model emitted in its latest turn
    invoked,        \* history: the tool invocations, with the accepted flag at that time
    accepts,        \* history: the circumstances in which an accepted flag became true
    submitted,      \* history: the latest tool results submitted to the model
    abandoned,      \* history: the tool uses of the rounds interrupted in ExecuteTools
    rejected,       \* history: the tool uses queued when the user declined at a tool prompt
    last_step,      \* history: what the latest step of the chat loop was
    \* ---- the life cycle of the peer: Client::init, Clone, Drop ----
    init,           \* Client::init: where it is, the response it examines, its result
    notified,       \* history: notifications/initialized was sent to the server
    spawned,        \* the background tasks Client::init has spawned and that still run
    list_changed_supported,     \* the two flags the dispatcher captured from init
    prompt_gets,    \* Client.prompt_gets: the names of the prompts in the catalog
    is_prompts_out_of_date,     \* Client.is_prompts_out_of_date
    fetches,        \* history: how many list requests the fetch functions have sent
    inbound_closed, \* every sender of the transport's inbound channel is dropped
    handles,        \* the Client values alive: the original and its clones
    server_process, \* the subprocess: "running", or "terminated" by terminate_process
    notifications,  \* history: how many notifications the server has sent
    lagged,         \* history: how many times the dispatcher's receiver has lagged
    prompt_fetch    \* the prompt list of the server, its latest prompts/list answer, and
                    \* the answer each running fetch_prompts call has received

requestVars == <<current_id, req, listener, pending, server_end, allocated, sent, served,
                 overtaken, unsolicited>>
dispatcherVars == <<disp_q, disp, outbox, sampling_sender, sampling_chan, slot, held,
                    server_reqs>>
toolVars == <<ctrl_c, tool_uses, tool_permissions, history, next_message, response,
              validating, requests, interrupts, turn, invoked, accepts, submitted,
              abandoned, rejected, last_step>>
chatVars == <<chat_state, chat_input, pending_sampling_requests, pending_sampling_index,
              pending_tool_index, inputs, answers, toolVars>>

peerVars == <<init, notified, spawned, list_changed_supported, prompt_gets,
              is_prompts_out_of_date, fetches, inbound_closed, handles, server_process,
              notifications, lagged, prompt_fetch>>

vars == <<requestVars, dispatcherVars, chatVars, peerVars>>

\* the tasks that call request, each on its own clone of the Client
Tasks == {1, 2}

(***************************************************************************)
(* JSON values.                                                            *)
(***************************************************************************)
Absent == [tag |-> "absent", str |-> ""]
JNull == [tag |-> "null", str |-> ""]
JStr(s) == [tag |-> "string", str |-> s]

\* Option<T>: None, or Some(x)
None == [some |-> FALSE, val |-> Absent]
Some(x) == [some |-> TRUE, val |-> x]

\* serde_json::Value::get on an object field: None only when the key is absent
ValueGet(field) == IF field.tag = "absent" THEN None ELSE Some(field)

\* a result object: the list `items` under the key `key`, and the nextCursor field.
NoResult == [present |-> FALSE, key |-> "", items |-> <<>>, nextCursor |-> Absent]
ResultObj(k, xs, c) == [present |-> TRUE, key |-> k, items |-> xs, nextCursor |-> c]

\* JsonRpcError { code, message, data: None }
NoError == [present |-> FALSE, code |-> 0, message |-> ""]
ErrorObj(c, m) == [present |-> TRUE, code |-> c, message |-> m]

\* JsonRpcMessage: Request, Response or Notification
Request(i, m, p) ==
    [kind |-> "Request", id |-> i, method |-> m, params |-> p,
     result |-> NoResult, error |-> NoError]
Response(i, r, e) ==
    [kind |-> "Response", id |-> i, method |-> "", params |-> None,
     result |-> r, error |-> e]
Notification(m) ==
    [kind |-> "Notification", id |-> 0, method |-> m, params |-> None,
     result |-> NoResult, error |-> NoError]

NoMessage == Notification("")

(***************************************************************************)
(* Methods.                                                                *)
(***************************************************************************)
ListMethods == {"resources/list", "resources/templates/list", "prompts/list", "tools/list"}
OtherMethods == {"get_env_vars"}
Methods == ListMethods \cup OtherMethods

\* PaginationSupportedOps::try_from(method): Some(op) for the four list methods
PaginationSupportedOps(method) ==
    IF method \in ListMethods THEN Some(JStr(method)) ELSE None

\* PaginationSupportedOps::as_key
as_key(ops) ==
    CASE ops = "resources/list" -> "resources"
      [] ops = "resources/templates/list" -> "resourceTemplates"
      [] ops = "prompts/list" -> "prompts"
      [] ops = "tools/list" -> "tools"
      [] OTHER -> ""

\* the field of ResourcesListResult, ResourceTemplatesListResult, PromptsListResult
\* and ToolsListResult that request destructures for each operation
ListResultField(ops) ==
    CASE ops = "resources/list" -> "resources"
      [] ops = "resources/templates/list" -> "resourceTemplates"
      [] ops = "prompts/list" -> "prompts"
      [] ops = "tools/list" -> "tools"
      [] OTHER -> ""

(***************************************************************************)
(* The server (the environment of the peer).                               *)
(***************************************************************************)
\* the list the server holds for a list method: what it returns unpaginated
ServerList(method) == [i \in 1..MaxItems |-> i]

\* the opaque cursor the server hands out for the page that starts after n items
Cursor(n) == "c" \o ToString(n)
Offset(c) == CHOOSE n \in 0..MaxItems : Cursor(n) = c

\* where the page asked for by `params` starts; a request without cursor, and a
\* request whose cursor is null, ask for the first page
PageStart(params) ==
    IF params.some /\ params.val.tag = "string" THEN Offset(params.val.str) ELSE 0

PageLens(off) == IF off = MaxItems THEN {0} ELSE 1..(MaxItems - off)

\* one page of the list of `method`, `len` items from `off` on
Page(method, off, len) ==
    ResultObj(ListResultField(method),
              SubSeq(ServerList(method), off + 1, off + len),
              IF off + len = MaxItems THEN server_end ELSE JStr(Cursor(off + len)))

\* tokio broadcast: a message reaches the subscriptions that exist when it is sent
Broadcast(msg) ==
    listener' = [t \in Tasks |->
                    IF listener[t].open
                    THEN [listener[t] EXCEPT !.q = Append(@, msg)]
                    ELSE listener[t]]

\* the requests still unanswered that were sent before r, when r is answered
SentBefore(i, j) ==
    \E a, b \in DOMAIN sent : a < b /\ sent[a] = i /\ sent[b] = j
Overtaken(r) == {q.id : q \in {p \in pending : SentBefore(p.id, r.id)}}

ServerRespond(r) ==
    /\ r \in pending
    /\ ~inbound_closed
    /\ \E msg \in
          IF r.method \in ListMethods
          THEN {Response(r.id, Page(r.method, PageStart(r.params), len), NoError) :
                    len \in PageLens(PageStart(r.params))}
          ELSE {Response(r.id, ResultObj("ENV_ONE", <<1>>, c), NoError) :
                    c \in {Absent, JNull, JStr(Cursor(1))}} :
          /\ Broadcast(msg)
          /\ served' = served \cup {msg}
    /\ pending' = pending \ {r}
    /\ overtaken' = overtaken \cup Overtaken(r)
    /\ UNCHANGED <<current_id, req, server_end, allocated, sent, unsolicited>>
    /\ UNCHANGED <<dispatcherVars, chatVars, peerVars>>

\* the server answers a request with a JSON-RPC error (no result)
ServerRespondError(r) ==
    /\ r \in pending
    /\ ~inbound_closed
    /\ Broadcast(Response(r.id, NoResult, ErrorObj(-32602, "Invalid params")))
    /\ served' = served \cup {Response(r.id, NoResult, ErrorObj(-32602, "Invalid params"))}
    /\ pending' = pending \ {r}
    /\ overtaken' = overtaken \cup Overtaken(r)
    /\ UNCHANGED <<current_id, req, server_end, allocated, sent, unsolicited>>
    /\ UNCHANGED <<dispatcherVars, chatVars, peerVars>>

\* the server sends a notification or a request of its own
ServerUnsolicited(msg) ==
    /\ unsolicited < MaxUnsolicited
    /\ ~inbound_closed
    /\ Broadcast(msg)
    /\ unsolicited' = unsolicited + 1
    /\ UNCHANGED <<current_id, req, pending, server_end, allocated, sent, served, overtaken>>
    /\ UNCHANGED <<dispatcherVars, chatVars, peerVars>>

UnsolicitedMessages ==
    {Notification("notifications/message"), Request(0, "roots/list", None)}

(***************************************************************************)
(* Client::request.                                                        *)
(***************************************************************************)
Ok(resp) == [ok |-> TRUE, resp |-> resp, err |-> "", context |-> ""]
Err(e) == [ok |-> FALSE, resp |-> NoMessage, err |-> e, context |-> ""]

\* impl From<(Elapsed, String)> for ClientError: RuntimeError { source, context }
RuntimeError(context) == [Err("RuntimeError") EXCEPT !.context = context]

\* `let send_map_err = |e: Elapsed| (e, method.to_string());`
send_map_err(method) == method

\* a context that does not tell which request timed out
recv_map_err_anonymous(method) == "recv"

\* `let recv_map_err = |e: Elapsed| (e, format!("recv for {method}"));`
recv_map_err(method) == "recv for " \o method

IdleRequest ==
    [pc |-> "idle", method |-> "", id |-> 0, resp |-> NoMessage,
     current_resp |-> NoMessage, results |-> <<>>, next_cursor |-> None,
     ret |-> Err("")]

ClosedListener == [open |-> FALSE, q |-> <<>>]

\* a counter that is read but not advanced
fetch_add_load(cur) == cur

\* AtomicU64::fetch_add(1): the value stored after the call; the call returns the
\* value before it
fetch_add(cur) == cur + 1

\* a receive loop that takes the first response it sees, whatever its id
ResponseMatches_any_id(msg, id) == msg.kind = "Response"

\* `if let Ok(JsonRpcMessage::Response(resp)) = listener.recv().await { if resp.id == id`
ResponseMatches(msg, id) == msg.kind = "Response" /\ msg.id = id

\* resp.result.as_ref().and_then(|v| v.get("nextCursor"))
next_cursor_of(resp) ==
    IF resp.result.present THEN ValueGet(resp.result.nextCursor) ELSE None

\* pagination entered for every response with a nextCursor, whatever the method
Paginates_any_method(method, next_cursor) == next_cursor.some

\* the pagination loop is entered for a response with a nextCursor, and only for a
\* method that is a PaginationSupportedOps
Paginates(method, next_cursor) ==
    next_cursor.some /\ PaginationSupportedOps(method).some

\* `if next_cursor.is_none() { break; }`
LoopBreaks(next_cursor) == ~next_cursor.some

\* a loop that keeps only the page it fetched last
AppendPage_last_only(results, list) == list

\* `results.append(&mut list);`
AppendPage(results, list) == results \o list

\* the result request builds after the loop: one key holding all results
ConcatenatedResult(ops, results) == ResultObj(as_key(ops), results, Absent)

\* One pass of the pagination loop body over the page `cur`, up to the next await:
\* the locals of the call afterwards.  pc is "returned" (loop left, or an error
\* returned by `?`), "panicked" (unwrap of a missing result) or "page_send" (a
\* follow-up request is to be sent with the id `new_id`).
LoopBody(r, cur, new_id) ==
    LET nc == next_cursor_of(cur)
        results == AppendPage(r.results, cur.result.items)
    IN  IF ~cur.result.present
        THEN [r EXCEPT !.pc = "panicked", !.current_resp = cur, !.next_cursor = nc]
        ELSE IF cur.result.key # ListResultField(r.method)
        THEN [r EXCEPT !.pc = "returned", !.current_resp = cur, !.next_cursor = nc,
                       !.ret = Err("Serialization")]
        ELSE IF LoopBreaks(nc)
        THEN [r EXCEPT !.pc = "returned", !.current_resp = cur, !.next_cursor = nc,
                       !.results = results,
                       !.resp = [r.resp EXCEPT !.result = ConcatenatedResult(r.method, results)],
                       !.ret = Ok([r.resp EXCEPT !.result = ConcatenatedResult(r.method, results)])]
        ELSE [r EXCEPT !.pc = "page_send", !.current_resp = cur, !.next_cursor = nc,
                       !.results = results, !.id = new_id]

\* the locals of the call after the response to its first request, up to the next await
AfterFirstResponse(r, resp, new_id) ==
    IF Paginates(r.method, next_cursor_of(resp))
    THEN LoopBody([r EXCEPT !.resp = resp], resp, new_id)
    ELSE [r EXCEPT !.pc = "returned", !.resp = resp, !.next_cursor = next_cursor_of(resp),
                   !.ret = Ok(resp)]

\* `let mut id = self.get_id();` and the construction of the request
RequestStart(t, m, cap) ==
    /\ req[t].pc = "idle"
    /\ current_id < cap
    /\ req' = [req EXCEPT ![t] = [@ EXCEPT !.pc = "send", !.method = m, !.id = current_id]]
    /\ current_id' = fetch_add(current_id)
    /\ allocated' = Append(allocated, [id |-> current_id, task |-> t])
    /\ UNCHANGED <<listener, pending, server_end, sent, served, unsolicited, overtaken>>
    /\ UNCHANGED <<dispatcherVars, chatVars, peerVars>>

\* `self.transport.send(&msg)` for the first request
RequestSend(t) ==
    /\ req[t].pc = "send"
    /\ pending' = pending \cup {Request(req[t].id, req[t].method, None)}
    /\ sent' = Append(sent, req[t].id)
    /\ req' = [req EXCEPT ![t].pc = "subscribe"]
    /\ UNCHANGED <<current_id, listener, server_end, allocated, served, unsolicited, overtaken>>
    /\ UNCHANGED <<dispatcherVars, chatVars, peerVars>>

\* `let mut listener = self.transport.get_listener();`
RequestSubscribe(t) ==
    /\ req[t].pc = "subscribe"
    /\ listener' = [listener EXCEPT ![t] = [open |-> TRUE, q |-> <<>>]]
    /\ req' = [req EXCEPT ![t].pc = "recv"]
    /\ UNCHANGED <<current_id, pending, server_end, allocated, sent, served, unsolicited, overtaken>>
    /\ UNCHANGED <<dispatcherVars, chatVars, peerVars>>

\* one `listener.recv().await` of either receive loop, and what follows it up to
\* the next await
RequestRecv(t, cap) ==
    /\ req[t].pc \in {"recv", "page_recv"}
    /\ listener[t].q # <<>>
    /\ LET msg == Head(listener[t].q)
           after == IF req[t].pc = "recv"
                    THEN AfterFirstResponse(req[t], msg, current_id)
                    ELSE LoopBody(req[t], msg, current_id)
       IN  IF ~ResponseMatches(msg, req[t].id)
           THEN /\ listener' = [listener EXCEPT ![t].q = Tail(@)]
                /\ UNCHANGED <<current_id, req, allocated>>
           ELSE /\ after.pc = "page_send" => current_id < cap
                /\ req' = [req EXCEPT ![t] = after]
                /\ listener' = [listener EXCEPT ![t] =
                                    IF after.pc \in {"returned", "panicked"}
                                    THEN ClosedListener
                                    ELSE [@ EXCEPT !.q = Tail(@)]]
                /\ IF after.pc = "page_send"
                   THEN /\ current_id' = fetch_add(current_id)
                        /\ allocated' = Append(allocated, [id |-> current_id, task |-> t])
                   ELSE UNCHANGED <<current_id, allocated>>
    /\ UNCHANGED <<pending, server_end, sent, served, overtaken, unsolicited>>
    /\ UNCHANGED <<dispatcherVars, chatVars, peerVars>>

\* `self.transport.send(&msg)` for a follow-up request `{"cursor": next_cursor}`
RequestPageSend(t) ==
    /\ req[t].pc = "page_send"
    /\ pending' = pending \cup {Request(req[t].id, req[t].method, Some(req[t].next_cursor.val))}
    /\ sent' = Append(sent, req[t].id)
    /\ req' = [req EXCEPT ![t].pc = "page_recv"]
    /\ UNCHANGED <<current_id, listener, server_end, allocated, served, unsolicited, overtaken>>
    /\ UNCHANGED <<dispatcherVars, chatVars, peerVars>>

\* time::timeout around either receive loop expires
RequestTimeout(t) ==
    /\ req[t].pc \in {"recv", "page_recv"}
    /\ req' = [req EXCEPT ![t] = [@ EXCEPT !.pc = "returned",
                                           !.ret = RuntimeError(recv_map_err(req[t].method))]]
    /\ listener' = [listener EXCEPT ![t] = ClosedListener]
    /\ UNCHANGED <<current_id, pending, server_end, allocated, sent, served, unsolicited, overtaken>>
    /\ UNCHANGED <<dispatcherVars, chatVars, peerVars>>

\* time::timeout around `self.transport.send(&msg)` expires, for the first request
\* or for a follow-up
RequestSendTimeout(t) ==
    /\ req[t].pc \in {"send", "page_send"}
    /\ req' = [req EXCEPT ![t] = [@ EXCEPT !.pc = "returned",
                                           !.ret = RuntimeError(send_map_err(req[t].method))]]
    /\ listener' = [listener EXCEPT ![t] = ClosedListener]
    /\ UNCHANGED <<current_id, pending, server_end, allocated, sent, served, unsolicited, overtaken>>
    /\ UNCHANGED <<dispatcherVars, chatVars, peerVars>>

\* `listener.recv().await` returns Err(Closed): the `if let Ok(..)` of the
\* receive loop does not match and the loop calls recv again
RequestRecvClosed(t) ==
    /\ req[t].pc \in {"recv", "page_recv"}
    /\ inbound_closed
    /\ listener[t].q = <<>>
    /\ UNCHANGED vars

(***************************************************************************)
(* The state after construction.                                           *)
(***************************************************************************)
\* SamplingApprovalResult { approved, error_message }
SamplingApprovalResult(a, m) == [approved |-> a, error_message |-> m]
\* the oneshot channel of a pending sampling request; state is one of
\*   "none"     no channel
\*   "open"     created, nothing sent, the sender is alive
\*   "sent"     a SamplingApprovalResult is in the channel
\*   "dropped"  the sender was dropped without sending
\*   "received" the handler has taken the result out
\*   "closed"   the handler has seen the closed channel
NoSlot == [state |-> "none", result |-> SamplingApprovalResult(FALSE, None)]
\* the dispatcher waiting in listener.recv()
IdleDispatcher == [pc |-> "recv", req |-> NoMessage]
\* Option<usize> of the pending indices
NoIndex == 0
\* a message of the conversation: who wrote it, what it is ("prompt",
\* "tool_results", "cancelled_tool_uses", "response", "tool_use") and the ids of
\* the tool uses it carries or answers
Message(r, k, i) == [role |-> r, kind |-> k, ids |-> i]
\* ConversationState.next_message = None
NoUserMessage == Message("none", "", <<>>)
\* no tool results were submitted yet
NoSubmission == [from |-> "", ids |-> <<>>, status |-> <<>>]
\* ToolPermissions::new, and trust_all as --trust-all-tools sets it
ToolPermissions(trust_all) == [trust_all |-> trust_all, trusted |-> {}]
\* no step of the chat loop was taken yet
NoStep == [state |-> "", outcome |-> "", can_summarize |-> FALSE, telemetry |-> ""]

\* Client::from_config: the id counter starts at zero and no request is running
(***************************************************************************)
(* The life cycle of the peer: what Client::init examines, and the Client  *)
(* values that Clone creates and Drop destroys.                            *)
(***************************************************************************)
\* a JSON boolean
JBool(b) == [tag |-> "bool", str |-> IF b THEN "true" ELSE "false"]

\* one feature of ServerCapabilities (prompts, tools): an Option<Value> whose
\* object may have a listChanged member
NoFeature == [some |-> FALSE, listChanged |-> Absent]
Feature(lc) == [some |-> TRUE, listChanged |-> lc]
Features == {NoFeature} \cup {Feature(lc) : lc \in {Absent, JBool(TRUE), JBool(FALSE)}}

\* ServerCapabilities { prompts, tools, .. }
ServerCapabilities(p, t) == [prompts |-> p, tools |-> t]
NoCapabilities == ServerCapabilities(NoFeature, NoFeature)

\* the jsonrpc tags a server may put on its response, and that of the client
\* (JsonRpcVersion::default())
Versions == {"2.0", "2", "2.0.1", "1.0", "2.1"}
ClientVersion == "2.0"

\* JsonRpcVersion::as_u32_vec: the components of the tag
as_u32_vec(v) ==
    CASE v = "2.0" -> <<2, 0>>
      [] v = "2" -> <<2>>
      [] v = "2.0.1" -> <<2, 0, 1>>
      [] v = "1.0" -> <<1, 0>>
      [] v = "2.1" -> <<2, 1>>

\* Iterator::zip: the pairs up to the end of the shorter sequence
zip(a, b) ==
    [k \in 1..(IF Len(a) < Len(b) THEN Len(a) ELSE Len(b)) |-> <<a[k], b[k]>>]

\* the response to initialize: its jsonrpc tag, whether it has a result, whether
\* the result has a capabilities member, and that member
InitializeResponse(v, r, c, cap) ==
    [jsonrpc |-> v, result |-> r, capabilities |-> c, cap |-> cap]
NoInitializeResponse == InitializeResponse("", FALSE, FALSE, NoCapabilities)
InitializeResponses ==
    {InitializeResponse(v, FALSE, FALSE, NoCapabilities) : v \in Versions}
    \cup {InitializeResponse(v, TRUE, FALSE, NoCapabilities) : v \in Versions}
    \cup {InitializeResponse(v, TRUE, TRUE, ServerCapabilities(p, t)) :
            v \in Versions, p \in Features, t \in Features}

\* every comparison examine_server_capabilities makes finds the components equal
examine_server_capabilities_ok(ser_cap) == "Ok"

\* examine_server_capabilities
examine_server_capabilities(ser_cap) ==
    LET pairs == zip(as_u32_vec(ser_cap.jsonrpc), as_u32_vec(ClientVersion)) IN
    IF \E k \in DOMAIN pairs : pairs[k][1] # pairs[k][2]
    THEN "NegotiationError"
    ELSE "Ok"

\* the locals of Client::init
InitState(pc, resp, ret) == [pc |-> pc, resp |-> resp, ret |-> ret]

\* the Client values: the owner of the value, and its server_process_id
Handle(owner, pid) == [owner |-> owner, server_process_id |-> pid]
Original == Handle("from_config", Some(JStr("pid")))

\* a clone that keeps the server_process_id of the value it is cloned from
Clone_inherit(h, owner) == Handle(owner, h.server_process_id)

\* impl Clone for Client: server_process_id: None
Clone(h, owner) == Handle(owner, None)

\* the background tasks of Client::init, each on its own clone of the Client
BackgroundTasks == {"fetch_prompts", "fetch_tools", "dispatcher"}

\* the callers of fetch_prompts_and_notify_with_messenger: the prefetch task
\* and the dispatcher
FetchTasks == {"fetch_prompts", "dispatcher"}
\* a call of fetch_prompts_and_notify_with_messenger that has no answer to
\* its prompts/list request
NoFetch == [answered |-> FALSE, list |-> {}]
\* the server holds its first prompt list and has answered no prompts/list
NoPromptFetch ==
    [server |-> {"p1"}, answered |-> FALSE, latest |-> {},
     call |-> [t \in FetchTasks |-> NoFetch]]

\* the peer after an init that succeeded with a server without capabilities
InitDone ==
    /\ init = InitState("returned",
                        InitializeResponse(ClientVersion, TRUE, TRUE, NoCapabilities), "Ok")
    /\ notified = TRUE
    /\ spawned = {"dispatcher"}
    /\ list_changed_supported = [prompts |-> FALSE, tools |-> FALSE]
    /\ prompt_gets = {}
    /\ is_prompts_out_of_date = FALSE
    /\ fetches = [prompts |-> 0, tools |-> 0]
    /\ inbound_closed = FALSE
    /\ handles = {Original, Clone(Original, "dispatcher")}
    /\ server_process = "running"
    /\ notifications = 0
    /\ lagged = 0
    /\ prompt_fetch = NoPromptFetch

InitClient ==
    /\ current_id = 0
    /\ req = [t \in Tasks |-> IdleRequest]
    /\ listener = [t \in Tasks |-> ClosedListener]
    /\ pending = {}
    /\ allocated = <<>>
    /\ sent = <<>>
    /\ served = {}
    /\ overtaken = {}
    /\ unsolicited = 0

\* the dispatcher before Client::init has spawned it
NoDispatcher == [pc |-> "unspawned", req |-> NoMessage]

\* nothing has been exchanged with the server yet
InitInbound ==
    /\ disp_q = <<>>
    /\ outbox = <<>>
    /\ sampling_chan = <<>>
    /\ slot = [i \in 1..MaxServerRequests |-> NoSlot]
    /\ held = {}
    /\ server_reqs = <<>>

\* Client::init has spawned the dispatcher, which has subscribed
InitDispatcher ==
    /\ InitInbound
    /\ disp = IdleDispatcher
    /\ InitDone

\* ChatSession::new: no pending sampling request, no pending tool use
InitChatSession(trust_all) ==
    /\ chat_state = "PromptUser"
    /\ chat_input = ""
    /\ pending_sampling_requests = <<>>
    /\ pending_sampling_index = NoIndex
    /\ pending_tool_index = NoIndex
    /\ inputs = 0
    /\ answers = {}
    /\ ctrl_c = FALSE
    /\ tool_uses = <<>>
    /\ tool_permissions = ToolPermissions(trust_all)
    /\ history = <<>>
    /\ next_message = NoUserMessage
    /\ response = <<>>
    /\ validating = <<>>
    /\ requests = 0
    /\ interrupts = 0
    /\ turn = <<>>
    /\ invoked = <<>>
    /\ accepts = {}
    /\ submitted = NoSubmission
    /\ abandoned = {}
    /\ rejected = {}
    /\ last_step = NoStep

\* a session started without --trust-all-tools
InitChat == InitChatSession(FALSE)

(***************************************************************************)
(* The peer with two concurrent callers of request, and a server that      *)
(* answers every request with a result.                                    *)
(***************************************************************************)
InitRequest ==
    /\ InitClient
    /\ server_end \in {Absent, JNull}
    /\ InitDispatcher
    /\ sampling_sender = "none"
    /\ InitChat

\* the methods the concurrent callers use: a list method and another one
ConcurrentMethods == {"tools/list", "get_env_vars"}

NextRequest ==
    \/ \E t \in Tasks, m \in ConcurrentMethods : RequestStart(t, m, MaxIds)
    \/ \E t \in Tasks : RequestSend(t)
    \/ \E t \in Tasks : RequestSubscribe(t)
    \/ \E t \in Tasks : RequestRecv(t, MaxIds)
    \/ \E t \in Tasks : RequestPageSend(t)
    \/ \E r \in pending : ServerRespond(r)
    \/ \E msg \in UnsolicitedMessages : ServerUnsolicited(msg)

SpecRequest == InitRequest /\ [][NextRequest]_vars

(***************************************************************************)
(* The peer with one caller of request, over every method, with timeouts   *)
(* and a server that may answer a request with an error.                   *)
(***************************************************************************)
NextPagination ==
    \/ \E m \in Methods : RequestStart(1, m, MaxPageIds)
    \/ RequestSend(1)
    \/ RequestSubscribe(1)
    \/ RequestRecv(1, MaxPageIds)
    \/ RequestPageSend(1)
    \/ RequestTimeout(1)
    \/ \E r \in pending : ServerRespond(r)
    \/ \E r \in pending : ServerRespondError(r)
    \/ \E msg \in UnsolicitedMessages : ServerUnsolicited(msg)

SpecPagination == InitRequest /\ [][NextPagination]_vars

(***************************************************************************)
(* Properties of Client::request.                                          *)
(***************************************************************************)
\* the ids get_id handed to task t
OwnIds(t) == {allocated[i].id : i \in {j \in DOMAIN allocated : allocated[j].task = t}}
\* the id of the first request of task t
FirstId(t) == CHOOSE i \in OwnIds(t) : \A j \in OwnIds(t) : i <= j
\* the requests task t has sent
SentBy(t) == {i \in DOMAIN sent : sent[i] \in OwnIds(t)}
\* the call of task t has returned a response
ReturnedOk(t) == req[t].pc = "returned" /\ req[t].ret.ok

\* C1: the ids one peer allocates (through the original Client and its clones, for
\* first requests and for pagination follow-ups, from any task) are pairwise
\* distinct and strictly increasing in allocation order.
C1_IdsDistinctAndIncreasing ==
    \A i, j \in DOMAIN allocated :
        i < j => allocated[i].id < allocated[j].id

\* two tasks have a request in flight at the same time, each with its own id
C1_Witness ==
    /\ req[1].pc = "recv" /\ req[2].pc = "recv"
    /\ Len(allocated) = 2
    /\ allocated[1].task # allocated[2].task
    /\ req[1].id # req[2].id

\* C2: every response a call of request accepts, and the response it returns,
\* carries the id the call sent: the returned response has the id of the call's
\* first request, and a page accepted during pagination has an id allocated by the
\* same call; other responses, inbound requests and notifications are skipped.
C2_ResponseMatchesRequest ==
    \A t \in Tasks :
        /\ ReturnedOk(t) =>
              /\ req[t].ret.resp.kind = "Response"
              /\ req[t].ret.resp.id = FirstId(t)
        /\ req[t].resp # NoMessage =>
              req[t].resp.kind = "Response" /\ req[t].resp.id = FirstId(t)
        /\ req[t].current_resp # NoMessage =>
              req[t].current_resp.kind = "Response" /\ req[t].current_resp.id \in OwnIds(t)

\* both calls were in flight, the server answered the request sent later first and
\* also sent a message of its own, and each call returned the response with its id
C2_Witness ==
    /\ ReturnedOk(1) /\ ReturnedOk(2)
    /\ overtaken # {}
    /\ unsolicited = 1
    /\ req[1].ret.resp.id = FirstId(1)
    /\ req[2].ret.resp.id = FirstId(2)
    /\ req[1].ret.resp.id # req[2].ret.resp.id

\* C3: when request returns a result for a list method, whatever pages the server
\* split its list into, the result holds under the method's key the server's whole
\* list in the server's order: the concatenation of the pages, nothing lost or
\* duplicated.
C3_PaginationComplete ==
    \A t \in Tasks :
        (ReturnedOk(t) /\ req[t].method \in ListMethods /\ req[t].ret.resp.result.present) =>
            /\ req[t].ret.resp.result.key = ListResultField(req[t].method)
            /\ req[t].ret.resp.result.items = ServerList(req[t].method)

\* a list was returned that the server had split into three pages
C3_Witness ==
    /\ ReturnedOk(1)
    /\ req[1].method \in ListMethods
    /\ Cardinality(OwnIds(1)) = 3
    /\ req[1].ret.resp.result.items = ServerList(req[1].method)

\* the page the call of task t accepted last
LastPage(t) ==
    IF req[t].current_resp # NoMessage THEN req[t].current_resp ELSE req[t].resp

\* C4: for a list method, once request has accepted a page whose nextCursor is
\* null or absent, it has returned without allocating or sending another request,
\* and the result it returned holds the concatenated list and no cursor.
C4_StopsAtNullOrAbsentCursor ==
    \A t \in Tasks :
        (/\ req[t].method \in ListMethods
         /\ LastPage(t) # NoMessage
         /\ LastPage(t).result.present
         /\ LastPage(t).result.nextCursor.tag \in {"absent", "null"}) =>
            /\ ReturnedOk(t)
            /\ req[t].id = LastPage(t).id
            /\ req[t].ret.resp.result.nextCursor = Absent
            /\ req[t].ret.resp.result.items = ServerList(req[t].method)

\* C5: for a method that is not one of the four list methods, a call of request
\* that did not time out has sent exactly one request and returned the server's
\* response to it as the server sent it, nextCursor included.
C5_OtherMethodsPassThrough ==
    \A t \in Tasks :
        (/\ req[t].pc = "returned"
         /\ req[t].method \notin ListMethods
         /\ req[t].ret.err # "RuntimeError") =>
            /\ req[t].ret.ok
            /\ req[t].ret.resp \in served
            /\ Cardinality(OwnIds(t)) = 1
            /\ Cardinality(SentBy(t)) = 1

\* a response to another method was returned with the nextCursor it carried
C5_Witness ==
    /\ ReturnedOk(1)
    /\ req[1].method \notin ListMethods
    /\ req[1].ret.resp.result.nextCursor.tag = "string"
    /\ Cardinality(SentBy(1)) = 1

\* the responses the server has sent to the request task t is waiting for
\* that did not reach the subscription of t
Missed(t) ==
    {msg \in served : /\ msg.id = req[t].id
                      /\ \A k \in DOMAIN listener[t].q : listener[t].q[k] # msg}

\* C35: no response is lost between sending and listening: while a call of
\* request waits in a receive loop, every response the server has sent to
\* the request it waits for is in its subscription, so the call returns it
\* and does not time out.
C35_ResponseNeverLost ==
    \A t \in Tasks : req[t].pc \in {"recv", "page_recv"} => Missed(t) = {}

\* the part of C35 about the follow-up requests, which are sent when the
\* subscription exists
C35_PageResponseNeverLost ==
    \A t \in Tasks : req[t].pc = "page_recv" => Missed(t) = {}

\* C38: when the response to a follow-up page request is an error response
\* (a response without result), the call of request returns, with an error
\* value or with that response, and does not panic.
C38_PageErrorReturns ==
    \A t \in Tasks :
        (/\ req[t].current_resp.kind = "Response"
         /\ ~req[t].current_resp.result.present
         /\ req[t].current_resp.id # FirstId(t)) => req[t].pc = "returned"

(***************************************************************************)
(* The dispatcher task of Client::init and Client::handle_sampling_request.*)
(***************************************************************************)
\* the result object of a response to sampling/createMessage: the keys of the
\* object, and the values of the keys the properties read
NoSamplingResult ==
    [present |-> FALSE, keys |-> {}, model |-> "", role |-> "",
     content |-> [keys |-> {}, type |-> ""]]
\* json!({"model": "placeholder", "role": "assistant",
\*        "content": {"type": "text", "text": ...}})
PlaceholderResult ==
    [present |-> TRUE, keys |-> {"model", "role", "content"},
     model |-> "placeholder", role |-> "assistant",
     content |-> [keys |-> {"type", "text"}, type |-> "text"]]

\* JsonRpcResponse { id, result, error } as the client sends it to the server
Reply_zero_id(i, r, e) == [id |-> 0, result |-> r, error |-> e]
Reply(i, r, e) == [id |-> i, result |-> r, error |-> e]

\* the params of a sampling/createMessage request that deserialize as a
\* SamplingRequest, and params that do not
ValidSamplingParams == Some(JStr("messages"))
SamplingParams == {ValidSamplingParams, None}
\* serde_json::from_value::<SamplingRequest>(request.params.unwrap_or_default())
ParsesAsSamplingRequest(params) == params = ValidSamplingParams

\* the dispatcher's reply to a request with any other method
MethodNotFound_InternalError(request) ==
    Reply(request.id, NoSamplingResult, ErrorObj(-32603, "Internal error"))
MethodNotFound(request) ==
    Reply(request.id, NoSamplingResult, ErrorObj(-32601, "Method not found: " \o request.method))
\* the dispatcher's reply when handle_sampling_request returns Err
HandlerError(request) ==
    Reply(request.id, NoSamplingResult,
          ErrorObj(-32603, "Internal error: Invalid sampling request"))
\* handle_sampling_request: sender.send(pending_request) failed
QueueFailed(request) ==
    Reply(request.id, NoSamplingResult,
          ErrorObj(-32603, "Failed to queue sampling request for approval"))
\* handle_sampling_request: no sampling sender
NotSupported_InternalError(request) ==
    Reply(request.id, NoSamplingResult,
          ErrorObj(-32603, "Sampling requests not supported in this configuration"))
NotSupported(request) ==
    Reply(request.id, NoSamplingResult,
          ErrorObj(-32601, "Sampling requests not supported in this configuration"))
\* handle_sampling_request: the verdict is an approval
Approved(request) == Reply(request.id, PlaceholderResult, NoError)
\* handle_sampling_request: the verdict is a rejection
RejectionMessage(approval_result) ==
    IF approval_result.error_message.some
    THEN approval_result.error_message.val.str
    ELSE "User rejected sampling request"
Rejected_ChannelClosed(request, approval_result) ==
    Reply(request.id, NoSamplingResult,
          ErrorObj(-32603, "Internal error: approval channel closed"))
Rejected(request, approval_result) ==
    Reply(request.id, NoSamplingResult, ErrorObj(-32000, RejectionMessage(approval_result)))
\* handle_sampling_request: the reply slot was dropped without a verdict
ChannelClosed(request) ==
    Reply(request.id, NoSamplingResult,
          ErrorObj(-32603, "Internal error: approval channel closed"))

\* what handle_sampling_request returns once response_receiver.await completes
AfterVerdict(request, s) ==
    IF s.state = "sent"
    THEN IF s.result.approved THEN Approved(request) ELSE Rejected(request, s.result)
    ELSE ChannelClosed(request)

\* PendingSamplingRequest: the request it belongs to (its reply slot is
\* slot[rid]) and the approved flag
PendingSamplingRequest(request) == [rid |-> request.id, approved |-> FALSE]

\* the methods of the requests a server sends
SamplingMethod == "sampling/createMessage"
ServerMethods == {SamplingMethod, "roots/list"}

\* the server sends a request to the client
ServerSendRequest(m, p) ==
    /\ Len(server_reqs) < MaxServerRequests
    /\ ~inbound_closed
    /\ disp.pc # "unspawned"
    /\ LET request == Request(Len(server_reqs) + 1, m, p) IN
        /\ disp_q' = Append(disp_q, request)
        /\ server_reqs' = Append(server_reqs, request)
    /\ UNCHANGED <<disp, outbox, sampling_sender, sampling_chan, slot, held>>
    /\ UNCHANGED <<requestVars, chatVars, peerVars>>

\* the dispatcher receives a request: it answers a request it does not support,
\* and runs handle_sampling_request on sampling/createMessage up to its first
\* return or to response_receiver.await
DispatcherRecv ==
    /\ disp.pc = "recv"
    /\ disp_q # <<>>
    /\ Head(disp_q).kind = "Request"
    /\ disp_q' = Tail(disp_q)
    /\ LET request == Head(disp_q) IN
        IF request.method # SamplingMethod
        THEN /\ outbox' = Append(outbox, MethodNotFound(request))
             /\ UNCHANGED <<disp, sampling_chan, slot>>
        ELSE IF ~ParsesAsSamplingRequest(request.params)
        THEN /\ outbox' = Append(outbox, HandlerError(request))
             /\ UNCHANGED <<disp, sampling_chan, slot>>
        ELSE IF sampling_sender = "none"
        THEN /\ outbox' = Append(outbox, NotSupported(request))
             /\ UNCHANGED <<disp, sampling_chan, slot>>
        ELSE IF sampling_sender = "closed"
        THEN /\ outbox' = Append(outbox, QueueFailed(request))
             /\ UNCHANGED <<disp, sampling_chan, slot>>
        ELSE /\ sampling_chan' = Append(sampling_chan, PendingSamplingRequest(request))
             /\ slot' = [slot EXCEPT ![request.id].state = "open"]
             /\ disp' = [pc |-> "sampling_wait", req |-> request]
             /\ UNCHANGED outbox
    /\ UNCHANGED <<sampling_sender, held, server_reqs>>
    /\ UNCHANGED <<requestVars, chatVars, peerVars>>

\* response_receiver.await completes: handle_sampling_request returns and the
\* dispatcher sends the response
DispatcherVerdict ==
    /\ disp.pc = "sampling_wait"
    /\ slot[disp.req.id].state \in {"sent", "dropped"}
    /\ outbox' = Append(outbox, AfterVerdict(disp.req, slot[disp.req.id]))
    /\ slot' = [slot EXCEPT ![disp.req.id].state =
                    IF @ = "sent" THEN "received" ELSE "closed"]
    /\ disp' = IdleDispatcher
    /\ UNCHANGED <<disp_q, sampling_sender, sampling_chan, held, server_reqs>>
    /\ UNCHANGED <<requestVars, chatVars, peerVars>>

(***************************************************************************)
(* A holder of the receiving end of the sampling channel that resolves     *)
(* every pending request with a verdict, or drops it.                      *)
(***************************************************************************)
\* SamplingApprovalResult::approved(), ::rejected(reason), and a rejection
\* without a message
Reasons == {"User declined", "Not now"}
Verdicts ==
    {SamplingApprovalResult(TRUE, None), SamplingApprovalResult(FALSE, None)}
    \cup {SamplingApprovalResult(FALSE, Some(JStr(r))) : r \in Reasons}

\* the holder dequeues a pending request
HolderTake ==
    /\ sampling_chan # <<>>
    /\ held' = held \cup {Head(sampling_chan).rid}
    /\ sampling_chan' = Tail(sampling_chan)
    /\ UNCHANGED <<disp_q, disp, outbox, sampling_sender, slot, server_reqs>>
    /\ UNCHANGED <<requestVars, chatVars, peerVars>>

\* PendingSamplingRequest::send_approval_result
send_approval_result(rid, result) ==
    /\ rid \in held
    /\ slot[rid].state = "open"
    /\ slot' = [slot EXCEPT ![rid] = [state |-> "sent", result |-> result]]
    /\ held' = held \ {rid}
    /\ UNCHANGED <<disp_q, disp, outbox, sampling_sender, sampling_chan, server_reqs>>
    /\ UNCHANGED <<requestVars, chatVars, peerVars>>

\* the holder drops a pending request without sending a verdict
HolderDrop(rid) ==
    /\ rid \in held
    /\ slot[rid].state = "open"
    /\ slot' = [slot EXCEPT ![rid].state = "dropped"]
    /\ held' = held \ {rid}
    /\ UNCHANGED <<disp_q, disp, outbox, sampling_sender, sampling_chan, server_reqs>>
    /\ UNCHANGED <<requestVars, chatVars, peerVars>>

InitSampling ==
    /\ InitClient
    /\ server_end = Absent
    /\ InitDispatcher
    /\ sampling_sender \in {"none", "open", "closed"}
    /\ InitChat

NextSampling ==
    \/ \E m \in ServerMethods, p \in SamplingParams : ServerSendRequest(m, p)
    \/ DispatcherRecv
    \/ DispatcherVerdict
    \/ HolderTake
    \/ \E rid \in held, v \in Verdicts : send_approval_result(rid, v)
    \/ \E rid \in held : HolderDrop(rid)

SpecSampling == InitSampling /\ [][NextSampling]_vars

(***************************************************************************)
(* The conversation, the tools and the model as the chat session uses them.*)
(***************************************************************************)
\* the tools a model may ask for; "unknown_tool" fails the lookup of
\* get_tool_from_tool_use
ToolNames == {"fs_write", "fs_read"}
\* Tool::requires_acceptance
requires_acceptance(name) == name = "fs_write"
\* AssistantToolUse { id, name, .. }; valid: lookup and validation succeed
AssistantToolUse(i, n) == [id |-> i, name |-> n, valid |-> n \in ToolNames]
\* QueuedTool { id, name, tool, accepted }
QueuedTool(tool_use, a) == [id |-> tool_use.id, name |-> tool_use.name, accepted |-> a]

\* the tool uses a response of the model may carry, by tool name
Responses ==
    {<<>>, <<"fs_write">>, <<"fs_read">>, <<"fs_write", "fs_write">>,
     <<"fs_read", "fs_write">>, <<"fs_write", "unknown_tool">>,
     <<"unknown_tool", "fs_write">>}
\* the outcome of client.send_message: a response stream, or an error
SendOk(names) == [ok |-> TRUE, names |-> names, error |-> "", can_summarize |-> FALSE]
SendErr(e, c) == [ok |-> FALSE, names |-> <<>>, error |-> e, can_summarize |-> c]
SendOutcomes ==
    {SendOk(r) : r \in Responses}
    \cup {SendErr("ContextWindowOverflow", c) : c \in BOOLEAN}
    \cup {SendErr("ModelOverloadedError", FALSE)}
\* a response without tool uses
PlainOutcomes == {SendOk(<<>>)}
\* the tool uses in the stream of the n-th response
Stream(names, n) == [k \in DOMAIN names |-> AssistantToolUse(10 * n + k, names[k])]

\* the ids of a sequence of tool uses, in order
Ids(tools) == [k \in DOMAIN tools |-> tools[k].id]
\* the set of the elements of a sequence
Range(f) == {f[k] : k \in DOMAIN f}

\* ConversationState::set_next_user_message: a prompt; when the last assistant
\* message carries tool uses, they are answered with cancellations
set_next_user_message(h) ==
    IF h # <<>> /\ h[Len(h)].kind = "tool_use"
    THEN Message("user", "cancelled_tool_uses", h[Len(h)].ids)
    ELSE Message("user", "prompt", <<>>)
\* ConversationState::abandon_tool_use
abandon_tool_use(tools) == Message("user", "cancelled_tool_uses", Ids(tools))
\* ConversationState::add_tool_results
add_tool_results(results) == Message("user", "tool_results", Ids(results))
\* ConversationState::push_assistant_message: the pending user message and the
\* assistant message enter the history
push_assistant_message(h, user, message) ==
    IF user = NoUserMessage THEN Append(h, message) ELSE h \o <<user, message>>
\* AssistantMessage::new_response / new_tool_use
AssistantMessage(tools) ==
    IF tools = <<>> THEN Message("assistant", "response", <<>>)
    ELSE Message("assistant", "tool_use", Ids(tools))

\* ToolPermissions::trust_tool
trust_tool(perm, name) == [perm EXCEPT !.trusted = @ \cup {name}]
\* ToolPermissions::reset
reset(perm) == ToolPermissions(FALSE)

\* handle_response: tool_uses.push(tool_use) for every ToolUse event
RECURSIVE PushAll(_, _)
PushAll(acc, events) ==
    IF events = <<>> THEN acc
    ELSE PushAll(Append(acc, Head(events)), Tail(events))

\* validate_tools: the loop over the tool uses of the turn
RECURSIVE ValidateLoop(_, _, _)
ValidateLoop_queue_valid(tools, queued_tools, tool_results) ==
    LET valid == SelectSeq(tools, LAMBDA t : t.valid) IN
    [queued_tools |-> [k \in DOMAIN valid |-> QueuedTool(valid[k], FALSE)],
     tool_results |-> <<>>]
ValidateLoop(tools, queued_tools, tool_results) ==
    IF tools = <<>> THEN [queued_tools |-> queued_tools, tool_results |-> tool_results]
    ELSE IF Head(tools).valid
    THEN ValidateLoop(Tail(tools), Append(queued_tools, QueuedTool(Head(tools), FALSE)),
                      tool_results)
    ELSE ValidateLoop(Tail(tools), queued_tools,
                      Append(tool_results, [id |-> Head(tools).id, status |-> "Error"]))

\* tool_use_execute: let allowed = ...
allowed_always(perm, name) == TRUE
allowed(perm, name) ==
    perm.trust_all \/ name \in perm.trusted \/ ~requires_acceptance(name)

\* tool_use_execute: the permission loop from index i on; prompt is the index
\* of the tool to ask the user about, NoIndex when every tool is accepted
RECURSIVE PermissionLoop(_, _, _)
PermissionLoop_first_only(tools, i, perm) ==
    IF tools = <<>> \/ tools[1].accepted \/ allowed(perm, tools[1].name)
    THEN [tools |-> [k \in DOMAIN tools |-> IF k = 1 THEN [tools[k] EXCEPT !.accepted = TRUE]
                                                    ELSE tools[k]],
          prompt |-> NoIndex]
    ELSE [tools |-> tools, prompt |-> 1]
PermissionLoop(tools, i, perm) ==
    IF i > Len(tools) THEN [tools |-> tools, prompt |-> NoIndex]
    ELSE IF tools[i].accepted THEN PermissionLoop(tools, i + 1, perm)
    ELSE IF allowed(perm, tools[i].name)
    THEN PermissionLoop([tools EXCEPT ![i].accepted = TRUE], i + 1, perm)
    ELSE [tools |-> tools, prompt |-> i]

\* tool_use_execute: the execution loop; status[k] is how the k-th invocation ends
RECURSIVE ExecutionLoop(_, _, _)
ExecutionLoop_reversed(tools, status, tool_results) ==
    [k \in DOMAIN tools |->
        [id |-> tools[Len(tools) + 1 - k].id, status |-> status[Len(tools) + 1 - k]]]
ExecutionLoop(tools, status, tool_results) ==
    IF tools = <<>> THEN tool_results
    ELSE ExecutionLoop(Tail(tools), Tail(status),
                       Append(tool_results, [id |-> Head(tools).id, status |-> Head(status)]))

\* next: the state after an error; the epilogue overwrites self.inner, which
\* is "" (None) after self.inner.take() unless the error branch set it
ErrorEpilogue_keep(inner) == inner
ErrorEpilogue(inner) == "PromptUser"
AfterError(out) ==
    IF out.error = "ContextWindowOverflow"
    THEN IF ~out.can_summarize THEN "PromptUser" ELSE ErrorEpilogue("CompactHistory")
    ELSE ErrorEpilogue("")

\* the tool uses next hands to ChatError::Interrupted in a state
InterruptedToolUses_none(state, tools) == <<>>
InterruptedToolUses(state, tools) ==
    IF state \in {"HandleInput", "ExecuteTools"} THEN tools ELSE <<>>

\* the circumstances in which the accepted flags of now differ from before
Accepts(before, now, by, input, perm) ==
    {[id |-> now[k].id, name |-> now[k].name, by |-> by, input |-> input, perm |-> perm] :
        k \in {j \in DOMAIN now : now[j].accepted /\ ~before[j].accepted}}

(***************************************************************************)
(* The chat session: ChatSession::next and the handlers of its states.     *)
(***************************************************************************)
\* the lines a user enters that start with "/" or with "!"
SlashInputs == {"/help", "/tools reset", "/quit", "/mcp", "/compact", "/bogus", "/help '"}
BangInputs == {"!ls"}
\* shlex::split yields None for a line with an unterminated quote
shlex_split(input) == IF input \in {"/help '"} THEN "None" ELSE "Some"
\* input.strip_prefix("/").and_then(shlex::split) is Some, or
\* input.strip_prefix("!") is Some
Commands ==
    {input \in SlashInputs : shlex_split(input) = "Some"} \cup BangInputs
ChatInputs == {"y", "Y", "t", "T", "n", "hello", "/help", "/tools reset"}
\* SlashCommand::try_parse_from and command.execute: the error, or the state
\* the command returns
CommandResult(input) ==
    CASE input = "/bogus" -> "ParseError"
      [] input = "/quit" -> "Ok(Exit)"
      [] input = "/mcp" -> "Ok(PromptUser{true})"
      [] input = "/compact" -> "Ok(CompactHistory)"
      [] input = "/help" -> "Err"
      [] OTHER -> "Ok(PromptUser{false})"
\* handle_input: the state after a slash command or a shell command
AfterCommand(input) ==
    IF input \in SlashInputs /\ CommandResult(input) = "Ok(Exit)"
    THEN "Exit" ELSE "PromptUser"
\* ["y", "Y"].contains(&input) || ["t", "T"].contains(&input)
IsApproval_y(input) == input \in {"y", "Y"}
IsApproval(input) == input \in {"y", "Y"} \/ input \in {"t", "T"}
\* ["t", "T"].contains(&input)
is_trust_y(input) == input \in {"y", "Y"}
is_trust(input) == input \in {"t", "T"}

\* handle_input: else if let Some(index) = self.pending_sampling_index, taken
\* when no tool approval is pending
SamplingBranch_never(tool_index, sampling_index) == FALSE
SamplingBranch(tool_index, sampling_index) ==
    tool_index = NoIndex /\ sampling_index # NoIndex

\* Vec::remove(index)
Remove(v, index) == [i \in 1..(Len(v) - 1) |-> IF i < index THEN v[i] ELSE v[i + 1]]

\* the request the sampling prompt is about, 0 when there is none
PromptedRid ==
    IF pending_sampling_index = NoIndex THEN 0
    ELSE pending_sampling_requests[pending_sampling_index].rid

\* the chat loop dequeues a pending sampling request and enters the
\* approval-decision state
ChatTake ==
    /\ chat_state = "PromptUser"
    /\ pending_sampling_index = NoIndex
    /\ pending_tool_index = NoIndex
    /\ sampling_chan # <<>>
    /\ sampling_chan' = Tail(sampling_chan)
    /\ pending_sampling_requests' = Append(pending_sampling_requests, Head(sampling_chan))
    /\ pending_sampling_index' = Len(pending_sampling_requests) + 1
    /\ UNCHANGED <<chat_state, chat_input, pending_tool_index, inputs, answers, toolVars>>
    /\ UNCHANGED <<disp_q, disp, outbox, sampling_sender, slot, held, server_reqs>>
    /\ UNCHANGED <<requestVars, peerVars>>

\* a step of the chat loop in a state, and how its handler ended
Step(state, outcome) ==
    [state |-> state, outcome |-> outcome, can_summarize |-> FALSE, telemetry |-> ""]
\* a step that ends with send_chat_telemetry(.., result, ..)
StepWithTelemetry(state, outcome, result) ==
    [Step(state, outcome) EXCEPT !.telemetry = result]
\* next: the result the Ctrl-C arm of the select of a state hands to
\* send_chat_telemetry, "" when that arm sends no chat telemetry
InterruptTelemetry(state) ==
    IF state = "HandleResponseStream" THEN "Cancelled" ELSE ""

\* enum ChatState
ChatStates ==
    {"PromptUser", "HandleInput", "ValidateTools", "ExecuteTools", "HandleResponseStream",
     "CompactHistory", "Exit"}

\* spawn: the initial input, when one was given, is handled first
Spawn(initial_input) ==
    /\ last_step = NoStep
    /\ chat_state = "PromptUser"
    /\ chat_state' = "HandleInput"
    /\ chat_input' = initial_input
    /\ last_step' = Step("spawn", "initial_input")
    /\ UNCHANGED <<pending_sampling_requests, pending_sampling_index, pending_tool_index,
                   inputs, answers>>
    /\ UNCHANGED <<ctrl_c, tool_uses, tool_permissions, history, next_message, response,
                   validating, requests, interrupts, turn, invoked, accepts, submitted,
                   abandoned, rejected>>
    /\ UNCHANGED <<requestVars, dispatcherVars, peerVars>>

\* prompt_user: shows the dialogs of the pending approvals; read_user_input
\* reads a non-empty line
PromptUser(input, cap) ==
    /\ chat_state = "PromptUser"
    /\ inputs < cap
    /\ inputs' = inputs + 1
    /\ chat_state' = "HandleInput"
    /\ chat_input' = input
    /\ ctrl_c' = FALSE
    /\ last_step' = Step("PromptUser", "line")
    /\ answers' = IF PromptedRid = 0 THEN answers
                  ELSE answers \cup {[rid |-> PromptedRid, input |-> input]}
    /\ UNCHANGED <<pending_sampling_requests, pending_sampling_index, pending_tool_index>>
    /\ UNCHANGED <<tool_uses, tool_permissions, history, next_message, response, validating,
                   requests, interrupts, turn, invoked, accepts, submitted, abandoned, rejected>>
    /\ UNCHANGED <<requestVars, dispatcherVars, peerVars>>

\* read_user_input: an empty line; the loop reads again
ReadEmptyLine ==
    /\ chat_state = "PromptUser"
    /\ inputs < MaxInputs
    /\ inputs' = inputs + 1
    /\ last_step' = Step("PromptUser", "empty")
    /\ UNCHANGED <<chat_state, chat_input, pending_sampling_requests, pending_sampling_index,
                   pending_tool_index, answers>>
    /\ UNCHANGED <<ctrl_c, tool_uses, tool_permissions, history, next_message, response,
                   validating, requests, interrupts, turn, invoked, accepts, submitted,
                   abandoned, rejected>>
    /\ UNCHANGED <<requestVars, dispatcherVars, peerVars>>

\* read_user_input: whether a read that yields no line ends the loop with None;
\* flag is the local ctrl_c
ReturnsNone_single(result, flag, exit_on_single_ctrl_c) == TRUE
ReturnsNone(result, flag, exit_on_single_ctrl_c) ==
    result = "Err" \/ flag \/ exit_on_single_ctrl_c

\* read_user_input: read_line returns Ok(None) (Ctrl-C or end of input) or Err
ReadNone(result) ==
    /\ chat_state = "PromptUser"
    /\ result = "Ok(None)" => interrupts < MaxInterrupts
    /\ interrupts' = IF result = "Ok(None)" THEN interrupts + 1 ELSE interrupts
    /\ IF ReturnsNone(result, ctrl_c, FALSE)
       THEN /\ ctrl_c' = FALSE
            /\ last_step' = Step("PromptUser", IF result = "Err" THEN "Err" ELSE "none")
            /\ chat_state' = "Exit"
       ELSE /\ ctrl_c' = TRUE
            /\ last_step' = Step("PromptUser", "warned")
            /\ UNCHANGED chat_state
    /\ UNCHANGED <<chat_input, pending_sampling_requests, pending_sampling_index,
                   pending_tool_index, inputs, answers>>
    /\ UNCHANGED <<tool_uses, tool_permissions, history, next_message, response, validating,
                   requests, turn, invoked, accepts, submitted, abandoned, rejected>>
    /\ UNCHANGED <<requestVars, dispatcherVars, peerVars>>

\* client.send_message(conversation state with the user message) and what
\* next does with its outcome
SendMessage(state, user, out, cap) ==
    /\ requests < cap
    /\ requests' = requests + 1
    /\ IF out.ok
       THEN /\ chat_state' = "HandleResponseStream"
            /\ response' = Stream(out.names, requests + 1)
            /\ next_message' = user
            /\ last_step' = Step(state, "ok")
       ELSE /\ chat_state' = AfterError(out)
            /\ response' = <<>>
            /\ next_message' = NoUserMessage
            /\ last_step' = [state |-> state, outcome |-> out.error,
                             can_summarize |-> out.can_summarize, telemetry |-> ""]

\* a slash command or a shell command
ExecuteCommand(input) ==
    tool_permissions' =
        IF input = "/tools reset" THEN reset(tool_permissions) ELSE tool_permissions

\* handle_input
HandleInput(out, cap) ==
    /\ chat_state = "HandleInput"
    /\ chat_input' = ""
    /\ IF chat_input \in Commands
       THEN /\ chat_state' = AfterCommand(chat_input)
            /\ ExecuteCommand(chat_input)
            /\ last_step' = Step("HandleInput", "command")
            /\ UNCHANGED <<pending_sampling_requests, pending_sampling_index, slot,
                           tool_uses, accepts, next_message, response, requests>>
       ELSE IF pending_tool_index # NoIndex /\ IsApproval(chat_input)
       THEN /\ chat_state' = "ExecuteTools"
            /\ tool_permissions' =
                  IF is_trust(chat_input)
                  THEN trust_tool(tool_permissions, tool_uses[pending_tool_index].name)
                  ELSE tool_permissions
            /\ tool_uses' = [tool_uses EXCEPT ![pending_tool_index].accepted = TRUE]
            /\ accepts' = accepts \cup
                  Accepts(tool_uses, tool_uses', "input", chat_input, tool_permissions)
            /\ last_step' = Step("HandleInput", "approved")
            /\ UNCHANGED <<pending_sampling_requests, pending_sampling_index, slot,
                           next_message, response, requests>>
       ELSE IF SamplingBranch(pending_tool_index, pending_sampling_index)
       THEN /\ chat_state' = "PromptUser"
            /\ pending_sampling_index' = NoIndex
            /\ last_step' = Step("HandleInput", "sampling")
            /\ IF IsApproval(chat_input)
               THEN /\ pending_sampling_requests' =
                        [pending_sampling_requests EXCEPT ![pending_sampling_index].approved = TRUE]
                    /\ UNCHANGED slot
               ELSE /\ pending_sampling_requests' =
                        Remove(pending_sampling_requests, pending_sampling_index)
                    /\ slot' = [slot EXCEPT ![PromptedRid].state = "dropped"]
            /\ UNCHANGED <<tool_uses, tool_permissions, accepts, next_message, response,
                           requests>>
       ELSE /\ SendMessage("HandleInput",
                           IF pending_tool_index # NoIndex
                           THEN abandon_tool_use(tool_uses)
                           ELSE set_next_user_message(history),
                           out, cap)
            /\ UNCHANGED <<pending_sampling_requests, pending_sampling_index, slot,
                           tool_uses, tool_permissions, accepts>>
    /\ UNCHANGED <<pending_tool_index, inputs, answers>>
    /\ UNCHANGED <<ctrl_c, history, validating, interrupts, turn, invoked, submitted,
                   abandoned>>
    /\ rejected' = IF chat_input \notin Commands /\ pending_tool_index # NoIndex
                        /\ ~IsApproval(chat_input)
                    THEN rejected \cup Range(Ids(tool_uses))
                    ELSE rejected
    /\ UNCHANGED <<disp_q, disp, outbox, sampling_sender, sampling_chan, held, server_reqs>>
    /\ UNCHANGED <<requestVars, peerVars>>

\* handle_response: the stream is consumed to its end
HandleResponseStream ==
    /\ chat_state = "HandleResponseStream"
    /\ LET received == PushAll(<<>>, response) IN
        /\ history' = push_assistant_message(history, next_message, AssistantMessage(received))
        /\ next_message' = NoUserMessage
        /\ turn' = received
        /\ IF received # <<>>
           THEN /\ chat_state' = "ValidateTools"
                /\ validating' = received
                /\ UNCHANGED <<tool_uses, pending_tool_index>>
           ELSE /\ chat_state' = "PromptUser"
                /\ tool_uses' = <<>>
                /\ pending_tool_index' = NoIndex
                /\ UNCHANGED validating
    /\ response' = <<>>
    /\ last_step' = StepWithTelemetry("HandleResponseStream", "ok", "Succeeded")
    /\ UNCHANGED <<chat_input, pending_sampling_requests, pending_sampling_index,
                   inputs, answers>>
    /\ UNCHANGED <<ctrl_c, tool_permissions, requests, interrupts, invoked, accepts,
                   submitted, abandoned, rejected>>
    /\ UNCHANGED <<requestVars, dispatcherVars, peerVars>>

\* handle_response: the stream fails
HandleResponseError ==
    /\ chat_state = "HandleResponseStream"
    /\ chat_state' = ErrorEpilogue("")
    /\ response' = <<>>
    /\ next_message' = NoUserMessage
    /\ last_step' = StepWithTelemetry("HandleResponseStream", "RecvError", "Failed")
    /\ UNCHANGED <<chat_input, pending_sampling_requests, pending_sampling_index,
                   pending_tool_index, inputs, answers>>
    /\ UNCHANGED <<ctrl_c, tool_uses, tool_permissions, history, validating, requests,
                   interrupts, turn, invoked, accepts, submitted, abandoned, rejected>>
    /\ UNCHANGED <<requestVars, dispatcherVars, peerVars>>

\* validate_tools
ValidateTools(out, cap) ==
    /\ chat_state = "ValidateTools"
    /\ validating' = <<>>
    /\ LET v == ValidateLoop(validating, <<>>, <<>>) IN
        IF v.tool_results # <<>>
        THEN /\ submitted' = [from |-> "ValidateTools", ids |-> Ids(v.tool_results),
                              status |-> [k \in DOMAIN v.tool_results |-> v.tool_results[k].status]]
             /\ SendMessage("ValidateTools", add_tool_results(v.tool_results), out, cap)
             /\ UNCHANGED <<tool_uses, pending_tool_index>>
        ELSE /\ tool_uses' = v.queued_tools
             /\ pending_tool_index' = 1
             /\ chat_state' = "ExecuteTools"
             /\ last_step' = Step("ValidateTools", "queued")
             /\ UNCHANGED <<submitted, next_message, response, requests>>
    /\ UNCHANGED <<chat_input, pending_sampling_requests, pending_sampling_index,
                   inputs, answers>>
    /\ UNCHANGED <<ctrl_c, tool_permissions, history, interrupts, turn, invoked, accepts,
                   abandoned, rejected>>
    /\ UNCHANGED <<requestVars, dispatcherVars, peerVars>>

\* the invocations of the tools in order, with their accepted flags
Invocations(tools) == [k \in DOMAIN tools |-> [id |-> tools[k].id, accepted |-> tools[k].accepted]]

\* tool_use_execute: the permission loop, then the execution loop; status is
\* how each invocation ends
ToolUseExecute(status, out, cap) ==
    /\ chat_state = "ExecuteTools"
    /\ LET p == PermissionLoop(tool_uses, 1, tool_permissions) IN
        /\ tool_uses' = p.tools
        /\ accepts' = accepts \cup Accepts(tool_uses, p.tools, "permission", "", tool_permissions)
        /\ IF p.prompt # NoIndex
           THEN /\ pending_tool_index' = p.prompt
                /\ chat_state' = "PromptUser"
                /\ last_step' = Step("ExecuteTools", "prompt")
                /\ UNCHANGED <<invoked, submitted, next_message, response, requests>>
           ELSE /\ invoked' = invoked \o Invocations(p.tools)
                /\ LET tool_results == ExecutionLoop(p.tools, status, <<>>) IN
                    /\ submitted' = [from |-> "ExecuteTools", ids |-> Ids(tool_results),
                                     status |-> [k \in DOMAIN tool_results |-> tool_results[k].status]]
                    /\ SendMessage("ExecuteTools", add_tool_results(tool_results), out, cap)
                /\ UNCHANGED pending_tool_index
    /\ UNCHANGED <<chat_input, pending_sampling_requests, pending_sampling_index,
                   inputs, answers>>
    /\ UNCHANGED <<ctrl_c, tool_permissions, history, validating, interrupts, turn, abandoned,
                   rejected>>
    /\ UNCHANGED <<requestVars, dispatcherVars, peerVars>>

\* next: Ctrl-C wins the select over the handler of the state, which is
\* dropped; in ExecuteTools the handler had invoked the first done tools
Interrupt(done) ==
    /\ chat_state \in {"HandleInput", "ExecuteTools", "ValidateTools", "HandleResponseStream"}
    /\ interrupts < MaxInterrupts
    /\ interrupts' = interrupts + 1
    /\ LET p == PermissionLoop(tool_uses, 1, tool_permissions)
           inter == InterruptedToolUses(chat_state, tool_uses) IN
        /\ IF chat_state = "ExecuteTools" /\ done > 0
           THEN /\ p.prompt = NoIndex
                /\ tool_uses' = p.tools
                /\ accepts' = accepts \cup
                      Accepts(tool_uses, p.tools, "permission", "", tool_permissions)
                /\ invoked' = invoked \o SubSeq(Invocations(p.tools), 1, done)
           ELSE /\ done = 0
                /\ UNCHANGED <<tool_uses, accepts, invoked>>
        /\ history' = IF inter # <<>>
                      THEN push_assistant_message(history, abandon_tool_use(inter),
                                                  AssistantMessage(<<>>))
                      ELSE history
        /\ abandoned' = IF chat_state = "ExecuteTools"
                        THEN abandoned \cup Range(Ids(tool_uses)) ELSE abandoned
    /\ next_message' = NoUserMessage
    /\ chat_state' = ErrorEpilogue("")
    /\ chat_input' = ""
    /\ response' = <<>>
    /\ validating' = <<>>
    /\ last_step' = StepWithTelemetry(chat_state, "Interrupted", InterruptTelemetry(chat_state))
    /\ UNCHANGED <<pending_sampling_requests, pending_sampling_index, pending_tool_index,
                   inputs, answers>>
    /\ UNCHANGED <<ctrl_c, tool_permissions, requests, turn, submitted, rejected>>
    /\ UNCHANGED <<requestVars, dispatcherVars, peerVars>>

\* the results of the invocations of a round
Statuses == {"Success", "Error"}

NextChatSampling ==
    \/ \E m \in ServerMethods, p \in SamplingParams : ServerSendRequest(m, p)
    \/ DispatcherRecv
    \/ DispatcherVerdict
    \/ ChatTake
    \/ \E input \in ChatInputs : PromptUser(input, MaxInputs)
    \/ \E out \in PlainOutcomes : HandleInput(out, MaxRequests)
    \/ HandleResponseStream

SpecChatSampling == InitSampling /\ [][NextChatSampling]_vars

(***************************************************************************)
(* The chat session with tools, interrupts and failing model requests.     *)
(***************************************************************************)
InitTools(trust_all) ==
    /\ InitClient
    /\ server_end = Absent
    /\ InitDispatcher
    /\ sampling_sender = "open"
    /\ InitChatSession(trust_all)

NextTools ==
    \/ \E input \in ChatInputs : PromptUser(input, MaxInputs)
    \/ \E out \in SendOutcomes : HandleInput(out, MaxRequests)
    \/ HandleResponseStream
    \/ HandleResponseError
    \/ \E out \in SendOutcomes : ValidateTools(out, MaxRequests)
    \/ \E status \in [DOMAIN tool_uses -> Statuses], out \in SendOutcomes :
            ToolUseExecute(status, out, MaxRequests)
    \/ \E done \in 0..Len(tool_uses) : Interrupt(done)

SpecTools == (\E trust_all \in BOOLEAN : InitTools(trust_all)) /\ [][NextTools]_vars

(***************************************************************************)
(* The chat session over several rounds of tool uses, without interrupts   *)
(* and with a model that answers every request.                            *)
(***************************************************************************)
TrustInputs == {"y", "t", "T", "n", "hello", "/tools reset"}
TrustOutcomes == {SendOk(<<>>), SendOk(<<"fs_write">>), SendOk(<<"fs_write", "fs_write">>)}

NextTrust ==
    \/ \E input \in TrustInputs : PromptUser(input, MaxTrustInputs)
    \/ \E out \in TrustOutcomes : HandleInput(out, MaxTrustRequests)
    \/ HandleResponseStream
    \/ \E out \in TrustOutcomes : ValidateTools(out, MaxTrustRequests)
    \/ \E status \in [DOMAIN tool_uses -> {"Success"}], out \in TrustOutcomes :
            ToolUseExecute(status, out, MaxTrustRequests)

SpecTrust == InitTools(FALSE) /\ [][NextTrust]_vars

(***************************************************************************)
(* The prompt of the chat session: lines, empty lines, interrupts and the  *)
(* end of input, with a model that answers in plain text.                  *)
(***************************************************************************)
NextPrompt ==
    \/ \E input \in ChatInputs : PromptUser(input, MaxInputs)
    \/ ReadEmptyLine
    \/ \E result \in {"Ok(None)", "Err"} : ReadNone(result)
    \/ \E out \in PlainOutcomes : HandleInput(out, MaxRequests)
    \/ HandleResponseStream
    \/ \E done \in {0} : Interrupt(done)

SpecPrompt == InitTools(FALSE) /\ [][NextPrompt]_vars

(***************************************************************************)
(* The chat session with slash commands and shell commands among the lines *)
(* of the user, also while a tool approval is pending.                     *)
(***************************************************************************)
CommandInputs == {"y", "hello"} \cup SlashInputs \cup BangInputs
CommandOutcomes == {SendOk(<<>>), SendOk(<<"fs_write">>)}

NextCommands ==
    \/ \E input \in CommandInputs : PromptUser(input, MaxInputs)
    \/ \E out \in CommandOutcomes : HandleInput(out, MaxRequests)
    \/ HandleResponseStream
    \/ \E out \in CommandOutcomes : ValidateTools(out, MaxRequests)
    \/ \E status \in [DOMAIN tool_uses -> {"Success"}], out \in CommandOutcomes :
            ToolUseExecute(status, out, MaxRequests)

SpecCommands == InitTools(FALSE) /\ [][NextCommands]_vars

(***************************************************************************)
(* The run loop of the chat session from spawn to Exit.                    *)
(***************************************************************************)
RunInputs == {"y", "hello", "/quit"}
RunOutcomes ==
    {SendOk(<<>>), SendOk(<<"fs_write">>), SendErr("ContextWindowOverflow", TRUE),
     SendErr("ModelOverloadedError", FALSE)}

NextRun ==
    \/ \E initial_input \in RunInputs : Spawn(initial_input)
    \/ \E input \in RunInputs : PromptUser(input, MaxInputs)
    \/ ReadEmptyLine
    \/ \E result \in {"Ok(None)", "Err"} : ReadNone(result)
    \/ \E out \in RunOutcomes : HandleInput(out, MaxRequests)
    \/ HandleResponseStream
    \/ HandleResponseError
    \/ \E out \in RunOutcomes : ValidateTools(out, MaxRequests)
    \/ \E status \in [DOMAIN tool_uses -> {"Success"}], out \in RunOutcomes :
            ToolUseExecute(status, out, MaxRequests)
    \/ \E done \in 0..Len(tool_uses) : Interrupt(done)

SpecRun == InitTools(FALSE) /\ [][NextRun]_vars

(***************************************************************************)
(* The chat session with tool approvals and sampling approvals.            *)
(***************************************************************************)
ApprovalInputs == {"y", "n", "hello", "/help"}
ApprovalOutcomes == {SendOk(<<>>), SendOk(<<"fs_write">>)}

NextApproval ==
    \/ \E p \in SamplingParams : ServerSendRequest(SamplingMethod, p)
    \/ DispatcherRecv
    \/ DispatcherVerdict
    \/ ChatTake
    \/ \E input \in ApprovalInputs : PromptUser(input, MaxInputs)
    \/ \E out \in ApprovalOutcomes : HandleInput(out, MaxRequests)
    \/ HandleResponseStream
    \/ \E out \in ApprovalOutcomes : ValidateTools(out, MaxRequests)
    \/ \E status \in [DOMAIN tool_uses -> {"Success"}], out \in ApprovalOutcomes :
            ToolUseExecute(status, out, MaxRequests)
    \/ \E done \in 0..Len(tool_uses) : Interrupt(done)

SpecApproval == InitTools(FALSE) /\ [][NextApproval]_vars

(***************************************************************************)
(* Properties of the dispatcher and of the sampling approval.              *)
(***************************************************************************)
\* the responses the server has received for its request i
RepliesTo(i) == {k \in DOMAIN outbox : outbox[k].id = i}
\* the dispatcher has finished with the server's request i
Handled(i) ==
    /\ i \in DOMAIN server_reqs
    /\ \A j \in DOMAIN disp_q : disp_q[j].id # i
    /\ ~(disp.pc = "sampling_wait" /\ disp.req.id = i)
\* a verdict was delivered on the reply slot of request i and the handler took it
VerdictTaken(i) == slot[i].state = "received"

\* C6: every request the dispatcher has received whose method is not
\* sampling/createMessage got exactly one response, and that response carries
\* the request's id, has no result and has error code -32601.
C6_MethodNotFound ==
    \A i \in DOMAIN server_reqs :
        (server_reqs[i].method # SamplingMethod /\ Handled(i)) =>
            /\ Cardinality(RepliesTo(i)) = 1
            /\ \A k \in RepliesTo(i) :
                /\ outbox[k].error.present
                /\ outbox[k].error.code = -32601
                /\ ~outbox[k].result.present

\* a request with an unsupported method was received and answered
C6_Witness ==
    \E i \in DOMAIN server_reqs :
        /\ server_reqs[i].method = "roots/list"
        /\ Handled(i)
        /\ RepliesTo(i) # {}

\* C7: when the verdict the handler took from the reply slot of a sampling
\* request is a rejection, the request got exactly one response, with the
\* request's id, no result, error code -32000 and the rejection reason as the
\* message (the default message when the rejection carries no reason).
C7_RejectionReply ==
    \A i \in DOMAIN server_reqs :
        (VerdictTaken(i) /\ ~slot[i].result.approved) =>
            /\ Cardinality(RepliesTo(i)) = 1
            /\ \A k \in RepliesTo(i) :
                /\ ~outbox[k].result.present
                /\ outbox[k].error.present
                /\ outbox[k].error.code = -32000
                /\ outbox[k].error.message =
                      IF slot[i].result.error_message.some
                      THEN slot[i].result.error_message.val.str
                      ELSE "User rejected sampling request"

\* a rejection with a reason was delivered and answered
C7_Witness ==
    \E i \in DOMAIN server_reqs :
        /\ VerdictTaken(i)
        /\ slot[i].result = SamplingApprovalResult(FALSE, Some(JStr("User declined")))
        /\ \E k \in RepliesTo(i) : outbox[k].error.message = "User declined"

\* C8: when the verdict the handler took from the reply slot is an approval, the
\* request got a response with the request's id that has no error and whose
\* result has role "assistant", a content object with a type, a model and a
\* stopReason.
C8_ApprovalReply ==
    \A i \in DOMAIN server_reqs :
        (VerdictTaken(i) /\ slot[i].result.approved) =>
            /\ RepliesTo(i) # {}
            /\ \A k \in RepliesTo(i) :
                /\ ~outbox[k].error.present
                /\ outbox[k].result.present
                /\ {"role", "content", "model", "stopReason"} \subseteq outbox[k].result.keys
                /\ outbox[k].result.role = "assistant"
                /\ "type" \in outbox[k].result.content.keys

\* C9: once handle_input has processed the user's y, Y, t or T at the sampling
\* prompt, the approval verdict is on the reply slot of that request (sent, or
\* already taken by the handler).
C9_ApprovalDelivered ==
    \A n \in DOMAIN pending_sampling_requests :
        (pending_sampling_requests[n].approved /\ chat_state = "PromptUser") =>
            /\ slot[pending_sampling_requests[n].rid].state \in {"sent", "received"}
            /\ slot[pending_sampling_requests[n].rid].result.approved

\* C10: every response the server receives for a sampling request the user
\* answered at the prompt with something other than y, Y, t or T is an error
\* response with code -32000.
C10_RejectionDelivered ==
    \A k \in DOMAIN outbox :
        (\E a \in answers : a.rid = outbox[k].id /\ ~IsApproval(a.input)) =>
            /\ outbox[k].error.present
            /\ outbox[k].error.code = -32000

\* C11: when the reply slot of a pending sampling request was dropped without
\* a verdict and the handler has seen the closed channel, the request got
\* exactly one response, and it is the rejection error: no result, code -32000.
C11_DropIsRejection ==
    \A i \in DOMAIN server_reqs :
        slot[i].state = "closed" =>
            /\ Cardinality(RepliesTo(i)) = 1
            /\ \A k \in RepliesTo(i) :
                /\ ~outbox[k].result.present
                /\ outbox[k].error.present
                /\ outbox[k].error.code = -32000

\* handle_sampling_request fails on request i before a verdict exists: the
\* params do not parse, or there is no sampling sender, or sender.send fails
FailsEarly(i) ==
    /\ server_reqs[i].method = SamplingMethod
    /\ \/ server_reqs[i].params # ValidSamplingParams
       \/ sampling_sender \in {"none", "closed"}
\* the pending request of the server's request i is on its way to a prompt
Queued(i) ==
    \/ \E n \in DOMAIN sampling_chan : sampling_chan[n].rid = i
    \/ \E n \in DOMAIN pending_sampling_requests : pending_sampling_requests[n].rid = i
    \/ i \in held
    \/ slot[i].state # "none"

\* C31: a sampling/createMessage request on which handle_sampling_request
\* fails before a verdict exists is never queued for approval, and once the
\* dispatcher has finished with it, it has exactly one response, an error
\* without result that carries its id: code -32603 when the params do not
\* parse, else -32601 when there is no sampling sender, else -32603 when the
\* pending request could not be enqueued.
C31_EarlyFailureReplies ==
    \A i \in DOMAIN server_reqs :
        FailsEarly(i) =>
            /\ ~Queued(i)
            /\ Handled(i) =>
                /\ Cardinality(RepliesTo(i)) = 1
                /\ \A k \in RepliesTo(i) :
                    /\ ~outbox[k].result.present
                    /\ outbox[k].error.present
                    /\ outbox[k].error.code =
                          IF server_reqs[i].params # ValidSamplingParams THEN -32603
                          ELSE IF sampling_sender = "none" THEN -32601
                          ELSE -32603
            /\ ~Handled(i) => RepliesTo(i) = {}

\* a sampling request with valid params was answered by a peer without a
\* sampling sender, and one whose params do not parse was answered too
C31_Witness ==
    /\ sampling_sender = "none"
    /\ \E i, j \in DOMAIN server_reqs :
        /\ server_reqs[i].method = SamplingMethod
        /\ server_reqs[i].params = ValidSamplingParams
        /\ server_reqs[j].method = SamplingMethod
        /\ server_reqs[j].params = None
        /\ Handled(i) /\ Handled(j)
        /\ \E k \in RepliesTo(i) : outbox[k].error.code = -32601
        /\ \E k \in RepliesTo(j) : outbox[k].error.code = -32603

Alternates(h) ==
    \A k \in DOMAIN h : h[k].role = (IF k % 2 = 1 THEN "user" ELSE "assistant")

\* the tool use id is answered in h: an assistant message asks for it and a
\* later user message carries its result or its cancellation
Matched(h, id) ==
    \E j, k \in DOMAIN h :
        /\ j < k
        /\ h[j].role = "assistant" /\ h[j].kind = "tool_use" /\ id \in Range(h[j].ids)
        /\ h[k].role = "user" /\ h[k].kind \in {"tool_results", "cancelled_tool_uses"}
        /\ id \in Range(h[k].ids)

\* C13: back at the prompt after interrupts during ExecuteTools, the history
\* alternates user and assistant messages and every tool use of an
\* interrupted round has a result or a cancellation; right after such an
\* interrupt the history ends with the assistant message that acknowledges it.
C13_InterruptKeepsHistory ==
    (chat_state = "PromptUser" /\ abandoned # {}) =>
        /\ Alternates(history)
        /\ \A id \in abandoned : Matched(history, id)
        /\ last_step = Step("ExecuteTools", "Interrupted") =>
                /\ history[Len(history)] = AssistantMessage(<<>>)
                /\ history[Len(history) - 1] = abandon_tool_use(tool_uses)

\* the same round was interrupted twice during ExecuteTools, the second time
\* after the user had approved the tool
C13_Witness ==
    /\ chat_state = "PromptUser"
    /\ last_step = Step("ExecuteTools", "Interrupted")
    /\ interrupts >= 2
    /\ \E id \in abandoned :
            Cardinality({k \in DOMAIN history :
                            history[k].kind = "cancelled_tool_uses"
                            /\ id \in Range(history[k].ids)}) >= 2
    /\ \E a \in accepts : a.by = "input"

\* C14: the accepted flag of a queued tool is set only by the user's answer
\* y, Y, t or T to the approval prompt, or by the permission check when
\* trust_all is set, the tool's name is trusted or the tool does not require
\* acceptance; and every tool that is invoked is accepted.
C14_AcceptedOnlyByConsent ==
    /\ \A a \in accepts :
            \/ a.by = "input" /\ a.input \in {"y", "Y", "t", "T"}
            \/ /\ a.by = "permission"
               /\ \/ a.perm.trust_all
                  \/ a.name \in a.perm.trusted
                  \/ ~requires_acceptance(a.name)
    /\ \A k \in DOMAIN tool_uses :
            tool_uses[k].accepted => \E a \in accepts : a.id = tool_uses[k].id
    /\ \A k \in DOMAIN invoked : invoked[k].accepted

\* a round of two tools was invoked: the first accepted by the permission
\* check, the second by the user's answer
C14_Witness ==
    /\ Len(invoked) >= 2
    /\ \E a, b \in accepts :
            /\ a.by = "permission" /\ ~a.perm.trust_all /\ ~requires_acceptance(a.name)
            /\ b.by = "input" /\ b.input = "y" /\ requires_acceptance(b.name)
            /\ invoked[1].id = a.id
            /\ invoked[2].id = b.id

\* the queued tools the permission check would ask the user about
AsksFor(tools, perm) ==
    {k \in DOMAIN tools : ~tools[k].accepted /\ requires_acceptance(tools[k].name)
                            /\ tools[k].name \notin perm.trusted /\ ~perm.trust_all}

\* C15: the answer t to the approval prompt of a tool trusts its name; the
\* trust stays until /tools reset removes it; while a name is trusted no use
\* of a tool with that name prompts, in the same round or in a later one;
\* and once the trust is removed the next use of the tool prompts again.
C15_TrustPersists ==
    [][/\ (chat_state = "HandleInput" /\ pending_tool_index # NoIndex /\ chat_input \in {"t", "T"})
            => tool_uses[pending_tool_index].name \in tool_permissions'.trusted
       /\ ~(chat_state = "HandleInput" /\ chat_input = "/tools reset")
            => tool_permissions.trusted \subseteq tool_permissions'.trusted
       /\ (chat_state = "HandleInput" /\ chat_input = "/tools reset")
            => tool_permissions'.trusted = {}
       /\ (chat_state = "ExecuteTools" /\ chat_state' = "PromptUser")
            => tool_uses[pending_tool_index'].name \notin tool_permissions.trusted
       /\ (chat_state = "ExecuteTools" /\ AsksFor(tool_uses, tool_permissions) # {})
            => /\ chat_state' = "PromptUser"
               /\ pending_tool_index' \in AsksFor(tool_uses, tool_permissions)
               /\ invoked' = invoked
      ]_vars

\* the user trusted fs_write with t, a later use of fs_write ran on that trust
\* without a prompt, /tools reset removed the trust, and the next use of
\* fs_write is at its approval prompt
C15_Witness ==
    /\ chat_state = "PromptUser"
    /\ last_step = Step("ExecuteTools", "prompt")
    /\ tool_uses[pending_tool_index].name = "fs_write"
    /\ tool_permissions.trusted = {}
    /\ \E a, b \in accepts :
            /\ a.by = "input" /\ a.input = "t" /\ a.name = "fs_write"
            /\ b.by = "permission" /\ b.name = "fs_write" /\ "fs_write" \in b.perm.trusted
            /\ a.id < b.id
            /\ b.id < tool_uses[pending_tool_index].id
            /\ \E k \in DOMAIN invoked : invoked[k].id = b.id

\* the ids are those of tool uses of one response, in the order of its stream
InStreamOrder(ids) ==
    \A j, k \in DOMAIN ids :
        j < k => (ids[j] < ids[k] /\ ids[j] \div 10 = ids[k] \div 10)

\* C16: the queued tools are in the order in which the response stream
\* emitted the tool uses, and the tool results ExecuteTools submits are in the
\* order of the queue, one per queued tool, whether the tools succeed or fail.
C16_ResultsInStreamOrder ==
    /\ InStreamOrder(Ids(tool_uses))
    /\ last_step = Step("ValidateTools", "queued") => Ids(tool_uses) = Ids(turn)
    /\ submitted.from = "ExecuteTools" =>
            /\ InStreamOrder(submitted.ids)
            /\ DOMAIN submitted.status = DOMAIN submitted.ids
    /\ (last_step.state = "ExecuteTools" /\ last_step.outcome \notin {"prompt", "Interrupted"})
            => submitted.ids = Ids(tool_uses)

\* a round of two tools was executed, the first tool failed and the second
\* succeeded, and the results were submitted
C16_Witness ==
    /\ last_step = Step("ExecuteTools", "ok")
    /\ submitted.from = "ExecuteTools"
    /\ Len(submitted.ids) = 2
    /\ submitted.ids = Ids(turn)
    /\ submitted.status = <<"Error", "Success">>

\* C17: after a model request that fails with ContextWindowOverflow the next
\* state is CompactHistory when a summary request can be created, and
\* PromptUser when it cannot.
C17_OverflowCompacts ==
    last_step.outcome = "ContextWindowOverflow" =>
        chat_state = (IF last_step.can_summarize THEN "CompactHistory" ELSE "PromptUser")

\* the last step handed tool results to add_tool_results and sent them
Submitted ==
    /\ last_step.state \in {"ValidateTools", "ExecuteTools"}
    /\ last_step.outcome \notin {"queued", "prompt", "Interrupted"}

\* C18: whenever tool results are submitted for a round, from ValidateTools
\* or from ExecuteTools, their ids are in bijection with the ids of the tool
\* uses the model emitted for that round.
C18_ResultsMatchToolUses ==
    Submitted =>
        /\ Range(submitted.ids) = Range(Ids(turn))
        /\ Len(submitted.ids) = Len(turn)

\* the tool uses of the turn that fail lookup or validation
Failing(tools) == SelectSeq(tools, LAMBDA t : ~t.valid)

\* C19: when a tool use of the turn fails lookup or validation, no tool of
\* the turn is queued or invoked, the error results of the failing tool uses
\* are the next message to the model and, the request being accepted, the
\* next state is HandleResponseStream; when none fails, every tool use of
\* the turn is queued unaccepted and the next state is ExecuteTools.
C19_ValidateTools ==
    /\ Failing(turn) # <<>> =>
            /\ Range(Ids(turn)) \cap Range(Ids(tool_uses)) = {}
            /\ Range(Ids(turn)) \cap Range(Ids(invoked)) = {}
    /\ (last_step.state = "ValidateTools" /\ last_step.outcome # "Interrupted") =>
            IF Failing(turn) # <<>>
            THEN /\ last_step.outcome # "queued"
                 /\ submitted.from = "ValidateTools"
                 /\ submitted.ids = Ids(Failing(turn))
                 /\ \A k \in DOMAIN submitted.status : submitted.status[k] = "Error"
                 /\ last_step.outcome = "ok" =>
                        /\ chat_state = "HandleResponseStream"
                        /\ next_message = add_tool_results(Failing(turn))
            ELSE /\ last_step.outcome = "queued"
                 /\ chat_state = "ExecuteTools"
                 /\ tool_uses = [k \in DOMAIN turn |-> QueuedTool(turn[k], FALSE)]
                 /\ pending_tool_index = 1

\* a turn with a valid and an unknown tool use was validated and the error
\* result of the unknown one went to the model
C19_Witness ==
    /\ last_step = Step("ValidateTools", "ok")
    /\ chat_state = "HandleResponseStream"
    /\ Len(turn) = 2
    /\ Len(Failing(turn)) = 1
    /\ submitted.ids = Ids(Failing(turn))

C21_ToolPromptAnswer ==
    [][(/\ chat_state = "HandleInput"
        /\ pending_tool_index # NoIndex
        /\ chat_input \notin Commands
        /\ interrupts' = interrupts)
       => IF chat_input \in {"y", "Y", "t", "T"}
          THEN /\ chat_state' = "ExecuteTools"
               /\ tool_uses' = [tool_uses EXCEPT ![pending_tool_index].accepted = TRUE]
               /\ tool_permissions' =
                     IF chat_input \in {"t", "T"}
                     THEN [tool_permissions EXCEPT
                             !.trusted = @ \cup {tool_uses[pending_tool_index].name}]
                     ELSE tool_permissions
               /\ requests' = requests
               /\ next_message' = next_message
          ELSE /\ requests' = requests + 1
               /\ tool_uses' = tool_uses
               /\ tool_permissions' = tool_permissions
               /\ last_step'.outcome = "ok" =>
                      /\ chat_state' = "HandleResponseStream"
                      /\ next_message' =
                            Message("user", "cancelled_tool_uses", Ids(tool_uses))
      ]_vars

\* the user answered n at the approval prompt of a queued tool: the
\* cancellation is on its way to the model
C21_Witness ==
    /\ chat_state = "HandleResponseStream"
    /\ last_step = Step("HandleInput", "ok")
    /\ pending_tool_index # NoIndex
    /\ next_message = Message("user", "cancelled_tool_uses", Ids(tool_uses))
    /\ \E k \in DOMAIN tool_uses : ~tool_uses[k].accepted
    /\ invoked = <<>>

\* C22: in HandleInput a line that starts with / leads to Exit when the
\* slash command returns Exit and to PromptUser otherwise, a line that
\* starts with ! leads to PromptUser; in both cases the queued tools, their
\* accepted flags and the pending tool index stay as they are and no model
\* request is issued.
C22_CommandsKeepTools ==
    [][(/\ chat_state = "HandleInput"
        /\ chat_input \in SlashInputs \cup BangInputs
        /\ interrupts' = interrupts)
       => /\ chat_state' =
                (IF chat_input \in SlashInputs /\ CommandResult(chat_input) = "Ok(Exit)"
                 THEN "Exit" ELSE "PromptUser")
          /\ tool_uses' = tool_uses
          /\ pending_tool_index' = pending_tool_index
          /\ requests' = requests
          /\ next_message' = next_message
      ]_vars

\* C23: the session starts in PromptUser, or in HandleInput with the initial
\* input when one was given; in every state the session holds one state of
\* ChatState with what that state carries; and once the state is Exit
\* nothing changes any more: no line is read, no request is sent, no tool is
\* invoked and the conversation stays as it is.
C23_OneStateExitTerminal ==
    /\ [](/\ chat_state \in ChatStates
          /\ last_step = NoStep => (chat_state = "PromptUser" /\ chat_input = "")
          /\ last_step.state = "spawn" => (chat_state = "HandleInput" /\ chat_input # "")
          /\ chat_state = "HandleInput" <=> chat_input # ""
          /\ chat_state = "ValidateTools" <=> validating # <<>>
          /\ chat_state = "ExecuteTools" => tool_uses # <<>>)
    /\ [][chat_state = "Exit" => UNCHANGED chatVars]_vars

\* a session that started with an initial input, ran a tool and an
\* interrupt, and is over
C23_Witness ==
    /\ chat_state = "Exit"
    /\ invoked # <<>>
    /\ interrupts > 0
    /\ history # <<>>
    /\ inputs < requests

\* the handler of the state is waiting for the model: handle_input awaits
\* client.send_message, or handle_response awaits the stream
WaitingForModel ==
    \/ chat_state = "HandleResponseStream"
    \/ /\ chat_state = "HandleInput"
       /\ chat_input \notin Commands
       /\ ~(pending_tool_index # NoIndex /\ chat_input \in {"y", "Y", "t", "T"})
       /\ ~(pending_tool_index = NoIndex /\ pending_sampling_index # NoIndex)

\* C24: an interrupt that arrives while the session waits for the response
\* of the model to a user message marks the chat telemetry of the turn
\* Cancelled and leads to PromptUser.
C24_InterruptCancelsTurn ==
    [][(WaitingForModel /\ interrupts' = interrupts + 1)
       => (last_step'.telemetry = "Cancelled" /\ chat_state' = "PromptUser")]_vars


\* C32: no tool use is invoked twice: the ids of the invocations of the
\* session are pairwise distinct.
C32_InvokedAtMostOnce ==
    \A j, k \in DOMAIN invoked : invoked[j].id = invoked[k].id => j = k

\* the tool uses invoked in a step
NewlyInvoked == {invoked'[k].id : k \in (Len(invoked) + 1)..Len(invoked')}

\* C33: a tool use that was queued when the user declined at a tool approval
\* prompt is never invoked afterwards.
C33_DeclinedNeverInvoked ==
    [][NewlyInvoked \cap rejected = {}]_vars

\* the ids of the tool uses that were invoked so far
InvokedIds == {invoked[k].id : k \in DOMAIN invoked}

\* C34: whenever the user is prompted while a tool approval is pending, the
\* pending index is an index of the queued tools, and the tool at that index
\* is a tool use of the latest turn of the model that is neither accepted nor
\* invoked.
C34_PendingToolAwaitsApproval ==
    (chat_state = "PromptUser" /\ pending_tool_index # NoIndex) =>
        /\ pending_tool_index \in DOMAIN tool_uses
        /\ tool_uses[pending_tool_index].id \in Range(Ids(turn))
        /\ ~tool_uses[pending_tool_index].accepted
        /\ tool_uses[pending_tool_index].id \notin InvokedIds

\* the part of C34 about the index alone
C34_PendingIndexValid ==
    pending_tool_index # NoIndex => pending_tool_index \in DOMAIN tool_uses

\* C40: when tool_use_execute stops to ask about a tool, no queued tool was
\* invoked yet; and tools are invoked only by tool_use_execute, in a step
\* after which every queued tool is accepted, and the tools invoked are the
\* queued tools from the first on.
C40_InvokedWhenAllAccepted ==
    /\ [][(chat_state = "ExecuteTools" /\ last_step'.outcome = "prompt")
            => (Range(Ids(tool_uses')) \cap InvokedIds' = {})]_vars
    /\ [][Len(invoked') > Len(invoked) =>
            /\ chat_state = "ExecuteTools"
            /\ \A k \in DOMAIN tool_uses' : tool_uses'[k].accepted
            /\ \E n \in 1..Len(tool_uses') :
                  SubSeq(invoked', Len(invoked) + 1, Len(invoked')) =
                      [k \in 1..n |-> [id |-> tool_uses'[k].id, accepted |-> TRUE]]]_vars

\* the user has accepted the second of two queued tools after the first, and
\* both were invoked
C40_Witness ==
    /\ Len(tool_uses) = 2
    /\ Len(invoked) = 2
    /\ \E a, b \in accepts : a.by = "input" /\ b.by = "input" /\ a.id # b.id
    /\ last_step.state = "ExecuteTools"
    /\ last_step.outcome \notin {"prompt", "Interrupted"}

(***************************************************************************)
(* Client::init: the initialize handshake and the background tasks.        *)
(***************************************************************************)
\* what init makes of the response to initialize: the error it returns, or "Ok"
Negotiate(resp) ==
    IF examine_server_capabilities(resp) # "Ok" THEN "NegotiationError"
    ELSE IF ~resp.result THEN "NegotiationError"
    ELSE IF ~resp.capabilities THEN "NegotiationError"
    ELSE "Ok"

\* the tasks init spawns once the server is initialized
TasksToSpawn(cap) ==
    {"dispatcher"}
    \cup (IF cap.prompts.some THEN {"fetch_prompts"} ELSE {})
    \cup (IF cap.tools.some THEN {"fetch_tools"} ELSE {})

\* a feature supports list_changed only when its listChanged member is true
is_list_changed_true(feature) == feature.some /\ feature.listChanged = JBool(TRUE)

\* `cap.prompts.as_ref().is_some_and(|p| p.get("listChanged").is_some())`
is_list_changed(feature) == feature.some /\ ValueGet(feature.listChanged).some

ListChangedSupported(cap) ==
    [prompts |-> is_list_changed(cap.prompts), tools |-> is_list_changed(cap.tools)]

\* init up to the await of `self.request("initialize", init_params)`
InitSend ==
    /\ init.pc = "idle"
    /\ Original \in handles
    /\ init' = [init EXCEPT !.pc = "request"]
    /\ UNCHANGED <<notified, spawned, list_changed_supported, prompt_gets,
                   is_prompts_out_of_date, fetches, inbound_closed, handles,
                   server_process, notifications, lagged>>
    /\ UNCHANGED prompt_fetch
    /\ UNCHANGED <<requestVars, dispatcherVars, chatVars>>

\* the response to initialize arrives: init examines it, and returns an error or
\* goes on to `self.notify("initialized", None)`
InitRecv(resp) ==
    /\ init.pc = "request"
    /\ ~inbound_closed
    /\ init' = IF Negotiate(resp) = "Ok"
               THEN InitState("notify", resp, "")
               ELSE InitState("returned", resp, Negotiate(resp))
    /\ UNCHANGED <<notified, spawned, list_changed_supported, prompt_gets,
                   is_prompts_out_of_date, fetches, inbound_closed, handles,
                   server_process, notifications, lagged>>
    /\ UNCHANGED prompt_fetch
    /\ UNCHANGED <<requestVars, dispatcherVars, chatVars>>

\* the initialize request times out
InitTimeout ==
    /\ init.pc = "request"
    /\ init' = InitState("returned", NoInitializeResponse, "RuntimeError")
    /\ UNCHANGED <<notified, spawned, list_changed_supported, prompt_gets,
                   is_prompts_out_of_date, fetches, inbound_closed, handles,
                   server_process, notifications, lagged>>
    /\ UNCHANGED prompt_fetch
    /\ UNCHANGED <<requestVars, dispatcherVars, chatVars>>

\* `self.notify("initialized", None).await?` and the rest of init: the prefetch
\* tasks and the dispatcher, each with its clone of the Client
InitNotify(sent_ok) ==
    /\ init.pc = "notify"
    /\ IF ~sent_ok
       THEN /\ init' = [init EXCEPT !.pc = "returned", !.ret = "TransportError"]
            /\ UNCHANGED <<notified, spawned, list_changed_supported,
                           is_prompts_out_of_date, handles, disp>>
       ELSE /\ init' = [init EXCEPT !.pc = "returned", !.ret = "Ok"]
            /\ notified' = TRUE
            /\ spawned' = TasksToSpawn(init.resp.cap)
            /\ list_changed_supported' = ListChangedSupported(init.resp.cap)
            /\ is_prompts_out_of_date' =
                    IF init.resp.cap.prompts.some THEN TRUE ELSE is_prompts_out_of_date
            /\ handles' = handles \cup
                    {Clone(Original, task) : task \in TasksToSpawn(init.resp.cap)}
            /\ disp' = IdleDispatcher
    /\ UNCHANGED <<prompt_gets, fetches, inbound_closed, server_process, notifications,
                   lagged>>
    /\ UNCHANGED <<disp_q, outbox, sampling_sender, sampling_chan, slot, held,
                   server_reqs>>
    /\ UNCHANGED prompt_fetch
    /\ UNCHANGED <<requestVars, chatVars>>

\* the prompt lists a server may return for prompts/list
PromptLists == {{"p1"}, {"p1", "p2"}}
\* what a list request of a fetch function comes to: a failure, or a list
FetchOutcomes == {[ok |-> FALSE, list |-> {}]} \cup {[ok |-> TRUE, list |-> l] : l \in PromptLists}

\* fetch_prompts_and_notify_with_messenger leaves the catalog alone unless the
\* request succeeded
fetch_prompts(outcome) == IF outcome.ok THEN outcome.list ELSE prompt_gets

\* impl Drop for Client: terminate_process when the value has a server_process_id
Drop(h) == IF h.server_process_id.some THEN "terminated" ELSE server_process

\* a prefetch task runs its fetch function and ends, dropping its clone
Prefetch(task, outcome) ==
    /\ task \in spawned \cap {"fetch_prompts", "fetch_tools"}
    /\ spawned' = spawned \ {task}
    /\ handles' = handles \ {Clone(Original, task)}
    /\ server_process' = Drop(Clone(Original, task))
    /\ IF task = "fetch_prompts"
       THEN /\ prompt_gets' = fetch_prompts(outcome)
            /\ fetches' = [fetches EXCEPT !.prompts = @ + 1]
       ELSE /\ fetches' = [fetches EXCEPT !.tools = @ + 1]
            /\ UNCHANGED prompt_gets
    /\ UNCHANGED <<init, notified, list_changed_supported, is_prompts_out_of_date,
                   inbound_closed, notifications, lagged>>
    /\ UNCHANGED prompt_fetch
    /\ UNCHANGED <<requestVars, dispatcherVars, chatVars>>

\* the server's end of the transport closes: every sender of the inbound channel
\* is dropped
TransportClose ==
    /\ ~inbound_closed
    /\ inbound_closed' = TRUE
    /\ UNCHANGED <<init, notified, spawned, list_changed_supported, prompt_gets,
                   is_prompts_out_of_date, fetches, handles, server_process,
                   notifications, lagged>>
    /\ UNCHANGED prompt_fetch
    /\ UNCHANGED <<requestVars, dispatcherVars, chatVars>>

(***************************************************************************)
(* Clone and Drop of the Client.                                           *)
(***************************************************************************)
\* the values the owner of the peer holds: the original and the clones it made
UserHandles == {h \in handles : h.owner \notin BackgroundTasks}

\* the owner of the peer clones one of its values
CloneClient(h, k, cap) ==
    /\ h \in UserHandles
    /\ k \in 1..cap
    /\ Cardinality(UserHandles \ {Original}) = k - 1
    /\ \A c \in handles : c.owner # "clone" \o ToString(k)
    /\ handles' = handles \cup {Clone(h, "clone" \o ToString(k))}
    /\ UNCHANGED <<init, notified, spawned, list_changed_supported, prompt_gets,
                   is_prompts_out_of_date, fetches, inbound_closed, server_process,
                   notifications, lagged>>
    /\ UNCHANGED prompt_fetch
    /\ UNCHANGED <<requestVars, dispatcherVars, chatVars>>

\* the owner of the peer drops one of its values; init borrows the original
\* while it runs
DropClient(h) ==
    /\ h \in UserHandles
    /\ h = Original => init.pc \in {"idle", "returned"}
    /\ handles' = handles \ {h}
    /\ server_process' = Drop(h)
    /\ UNCHANGED <<init, notified, spawned, list_changed_supported, prompt_gets,
                   is_prompts_out_of_date, fetches, inbound_closed, notifications,
                   lagged>>
    /\ UNCHANGED prompt_fetch
    /\ UNCHANGED <<requestVars, dispatcherVars, chatVars>>


(***************************************************************************)
(* The dispatcher: notifications and receive errors.                       *)
(***************************************************************************)
NotificationMethods ==
    {"notifications/message", "notifications/cancelled",
     "notifications/prompts/list_changed", "prompts/list_changed",
     "notifications/tools/list_changed", "tools/list_changed"}

\* the server sends a notification
ServerNotify(m) ==
    /\ notifications < MaxNotifications
    /\ ~inbound_closed
    /\ disp.pc # "unspawned"
    /\ disp_q' = Append(disp_q, Notification(m))
    /\ notifications' = notifications + 1
    /\ UNCHANGED <<init, notified, spawned, list_changed_supported, prompt_gets,
                   is_prompts_out_of_date, fetches, inbound_closed, handles,
                   server_process, lagged>>
    /\ UNCHANGED <<disp, outbox, sampling_sender, sampling_chan, slot, held, server_reqs>>
    /\ UNCHANGED prompt_fetch
    /\ UNCHANGED <<requestVars, chatVars>>

\* the arm of `match method.as_str()` a notification takes: the fetch function
\* the dispatcher calls, or "recv" when it goes back to its listener at once
OnNotification(method, supported) ==
    IF method \in {"notifications/prompts/list_changed", "prompts/list_changed"}
       /\ supported.prompts
    THEN "fetch_prompts"
    ELSE IF method \in {"notifications/tools/list_changed", "tools/list_changed"}
            /\ supported.tools
    THEN "fetch_tools"
    ELSE "recv"

\* the dispatcher receives a notification; a fetch function sends its list request
DispatcherNotification ==
    /\ disp.pc = "recv"
    /\ disp_q # <<>>
    /\ Head(disp_q).kind = "Notification"
    /\ disp_q' = Tail(disp_q)
    /\ LET arm == OnNotification(Head(disp_q).method, list_changed_supported) IN
        /\ disp' = [disp EXCEPT !.pc = arm]
        /\ fetches' = IF arm = "fetch_prompts" THEN [fetches EXCEPT !.prompts = @ + 1]
                      ELSE IF arm = "fetch_tools" THEN [fetches EXCEPT !.tools = @ + 1]
                      ELSE fetches
    /\ UNCHANGED <<init, notified, spawned, list_changed_supported, prompt_gets,
                   is_prompts_out_of_date, inbound_closed, handles, server_process,
                   notifications, lagged>>
    /\ UNCHANGED <<outbox, sampling_sender, sampling_chan, slot, held, server_reqs>>
    /\ UNCHANGED prompt_fetch
    /\ UNCHANGED <<requestVars, chatVars>>

\* the list request of the fetch function returns, with a response or an error
DispatcherFetched(outcome) ==
    /\ disp.pc \in {"fetch_prompts", "fetch_tools"}
    /\ disp' = [disp EXCEPT !.pc = "recv"]
    /\ IF disp.pc = "fetch_prompts"
       THEN /\ prompt_gets' = fetch_prompts(outcome)
            /\ is_prompts_out_of_date' = TRUE
       ELSE UNCHANGED <<prompt_gets, is_prompts_out_of_date>>
    /\ UNCHANGED <<init, notified, spawned, list_changed_supported, fetches,
                   inbound_closed, handles, server_process, notifications, lagged>>
    /\ UNCHANGED <<disp_q, outbox, sampling_sender, sampling_chan, slot, held,
                   server_reqs>>
    /\ UNCHANGED prompt_fetch
    /\ UNCHANGED <<requestVars, chatVars>>

\* every receive error ends the loop
BreaksOn_any(e) == TRUE

\* `if let TransportError::RecvError(RecvError::Closed) = e { break; }`
BreaksOn(e) == e = "Closed"

\* listener.recv() returns an error: Closed once the channel is closed and
\* drained, Lagged(n) when the n oldest messages were overwritten
DispatcherRecvError(e, n) ==
    /\ disp.pc = "recv"
    /\ \/ e = "Closed" /\ n = 0 /\ inbound_closed /\ disp_q = <<>>
       \/ e = "Lagged" /\ n \in 1..Len(disp_q) /\ lagged < MaxLagged
    /\ disp_q' = SubSeq(disp_q, n + 1, Len(disp_q))
    /\ lagged' = IF e = "Lagged" THEN lagged + 1 ELSE lagged
    /\ IF BreaksOn(e)
       THEN /\ disp' = [disp EXCEPT !.pc = "terminated"]
            /\ spawned' = spawned \ {"dispatcher"}
            /\ handles' = handles \ {Clone(Original, "dispatcher")}
            /\ server_process' = Drop(Clone(Original, "dispatcher"))
       ELSE UNCHANGED <<disp, spawned, handles, server_process>>
    /\ UNCHANGED <<init, notified, list_changed_supported, prompt_gets,
                   is_prompts_out_of_date, fetches, inbound_closed, notifications>>
    /\ UNCHANGED <<outbox, sampling_sender, sampling_chan, slot, held, server_reqs>>
    /\ UNCHANGED prompt_fetch
    /\ UNCHANGED <<requestVars, chatVars>>

(***************************************************************************)
(* The peer from from_config to the end of its tasks.                      *)
(***************************************************************************)
\* Client::from_config: the original, no task, nothing sent; `sender` is the
\* sampling_sender of the ClientConfig and `i` is where Client::init is
FromConfig(sender, i) ==
    /\ InitClient
    /\ server_end = Absent
    /\ InitChat
    /\ InitInbound
    /\ disp = NoDispatcher
    /\ sampling_sender = sender
    /\ init = i
    /\ notified = FALSE
    /\ spawned = {}
    /\ list_changed_supported = [prompts |-> FALSE, tools |-> FALSE]
    /\ prompt_gets = {}
    /\ is_prompts_out_of_date = FALSE
    /\ fetches = [prompts |-> 0, tools |-> 0]
    /\ inbound_closed = FALSE
    /\ handles = {Original}
    /\ server_process = "running"
    /\ notifications = 0
    /\ lagged = 0
    /\ prompt_fetch = NoPromptFetch

InitPeer == FromConfig("none", InitState("idle", NoInitializeResponse, ""))

NextInit ==
    \/ InitSend
    \/ \E resp \in InitializeResponses : InitRecv(resp)
    \/ InitTimeout
    \/ \E sent_ok \in BOOLEAN : InitNotify(sent_ok)
    \/ \E task \in BackgroundTasks, outcome \in FetchOutcomes : Prefetch(task, outcome)
    \/ TransportClose
    \/ \E h \in handles, k \in 1..MaxClones : CloneClient(h, k, MaxClones)
    \/ \E h \in handles : DropClient(h)
    \/ DispatcherRecvError("Closed", 0)

SpecInit == InitPeer /\ [][NextInit]_vars


(***************************************************************************)
(* C25 - C28: the handshake, the version check and the kill rights.        *)
(***************************************************************************)
\* C25: notifications/initialized is sent only after init has received the
\* response to initialize and that response passed validation (a jsonrpc tag
\* whose compared components agree with the client's, a result, capabilities);
\* when init fails with a timeout or a negotiation error the notification is
\* not sent and neither the dispatcher nor a prefetch task is started.
C25_NotifiedAfterValidation ==
    /\ notified =>
        /\ init.resp.jsonrpc \in {"2.0", "2", "2.0.1"}
        /\ init.resp.result
        /\ init.resp.capabilities
    /\ init.ret \in {"RuntimeError", "NegotiationError"} =>
        /\ ~notified
        /\ spawned = {}
        /\ disp.pc = "unspawned"
        /\ fetches = [prompts |-> 0, tools |-> 0]
        /\ \A h \in handles : h.owner \notin {"fetch_prompts", "fetch_tools", "dispatcher"}

\* init has succeeded with a server that has prompts: the notification is sent,
\* the prefetch task and the dispatcher run
C25_Witness ==
    /\ init.ret = "Ok"
    /\ notified
    /\ "fetch_prompts" \in spawned
    /\ disp.pc = "recv"

\* C26: once init has returned on a response, it has returned a negotiation
\* error whenever the jsonrpc tag of the response is not exactly the client's
\* "2.0" (tags with another number of components included) or the response
\* has no result, and it has succeeded only on a tag that is exactly "2.0".
C26_ExactVersionOnly ==
    (init.pc = "returned" /\ init.resp # NoInitializeResponse) =>
        /\ (init.resp.jsonrpc # "2.0" \/ ~init.resp.result) => init.ret = "NegotiationError"
        /\ init.ret = "Ok" => init.resp.jsonrpc = "2.0"

\* C28: the subprocess is terminated by the step that drops the original
\* Client, and by no step that drops a clone, be it a clone of the owner or the
\* clone of a background task.
C28_OnlyOriginalTerminates ==
    [][/\ server_process' # server_process =>
            (Original \in handles /\ Original \notin handles')
       /\ (Original \in handles /\ Original \notin handles') =>
            server_process' = "terminated"]_vars

\* the three background tasks have ended and dropped their clones, and the
\* subprocess still runs
C28_Witness ==
    /\ init.ret = "Ok"
    /\ init.resp.cap.prompts.some /\ init.resp.cap.tools.some
    /\ handles = {Original}
    /\ disp.pc = "terminated"
    /\ server_process = "running"


(***************************************************************************)
(* The dispatcher of a peer whose server passed the handshake: init is     *)
(* about to send notifications/initialized.                                *)
(***************************************************************************)
InitDispatch ==
    \E sender \in {"none", "open"}, p \in Features, t \in Features :
        FromConfig(sender,
                   InitState("notify",
                             InitializeResponse(ClientVersion, TRUE, TRUE,
                                                ServerCapabilities(p, t)), ""))

NextDispatch ==
    \/ InitNotify(TRUE)
    \/ \E task \in BackgroundTasks, outcome \in FetchOutcomes : Prefetch(task, outcome)
    \/ \E m \in NotificationMethods : ServerNotify(m)
    \/ ServerSendRequest(SamplingMethod, ValidSamplingParams)
    \/ DispatcherRecv
    \/ DispatcherVerdict
    \/ HolderTake
    \/ \E rid \in held : send_approval_result(rid, SamplingApprovalResult(TRUE, None))
    \/ DispatcherNotification
    \/ \E outcome \in FetchOutcomes : DispatcherFetched(outcome)
    \/ \E e \in {"Closed", "Lagged"}, n \in 0..MaxNotifications + MaxServerRequests :
            DispatcherRecvError(e, n)
    \/ TransportClose

SpecDispatch == InitDispatch /\ [][NextDispatch]_vars

\* the dispatcher task is scheduled whenever it can take a step; the timers of
\* the list requests of its fetch functions fire
FairDispatcher ==
    /\ WF_vars(InitNotify(TRUE))
    /\ WF_vars(DispatcherRecv)
    /\ WF_vars(DispatcherVerdict)
    /\ WF_vars(DispatcherNotification)
    /\ WF_vars(\E outcome \in FetchOutcomes : DispatcherFetched(outcome))
    /\ WF_vars(DispatcherRecvError("Closed", 0))

SpecDispatchFair == SpecDispatch /\ FairDispatcher

(***************************************************************************)
(* C27, C30: the dispatcher.                                               *)
(***************************************************************************)
\* the step by which the dispatcher takes a notification from its listener
TakesNotification ==
    /\ disp.pc = "recv"
    /\ disp_q # <<>>
    /\ Head(disp_q).kind = "Notification"
    /\ disp_q' = Tail(disp_q)
    /\ lagged' = lagged

\* nothing is sent and the catalog and its flag stay as they are
Dropped ==
    /\ fetches' = fetches
    /\ outbox' = outbox
    /\ prompt_gets' = prompt_gets
    /\ is_prompts_out_of_date' = is_prompts_out_of_date
    /\ disp'.pc = "recv"

\* what the dispatcher does with the notification it takes, when the prompts
\* (tools) feature counts as advertising listChanged exactly if adv_prompts
\* (adv_tools): it refetches on an advertised list_changed, and drops every
\* other list_changed and every notification of an unrecognized method
ListChangedRule(adv_prompts, adv_tools) ==
    LET m == Head(disp_q).method IN
    /\ m \in {"notifications/prompts/list_changed", "prompts/list_changed"} =>
        IF adv_prompts THEN fetches' = [fetches EXCEPT !.prompts = @ + 1] ELSE Dropped
    /\ m \in {"notifications/tools/list_changed", "tools/list_changed"} =>
        IF adv_tools THEN fetches' = [fetches EXCEPT !.tools = @ + 1] ELSE Dropped
    /\ m = "notifications/cancelled" => Dropped

\* C27 as stated: on a prompts (tools) list_changed notification the
\* dispatcher sends a prompts/list (tools/list) request if and only if the
\* capabilities of the server advertised listChanged, that is listChanged:
\* true, for prompts (tools); a list_changed notification without that
\* capability and a notification of an unrecognized method are dropped: no
\* request, no reply, and the prompt catalog and the out-of-date flag are
\* unchanged.
C27_ListChangedIffAdvertised ==
    [][TakesNotification =>
        ListChangedRule(
            init.resp.cap.prompts.some /\ init.resp.cap.prompts.listChanged = JBool(TRUE),
            init.resp.cap.tools.some /\ init.resp.cap.tools.listChanged = JBool(TRUE))]_vars

\* C27 amended: the dispatcher refetches on a prompts (tools) list_changed
\* notification if and only if the prompts (tools) capability of the server
\* has a listChanged member, whatever its value (false included); every other
\* list_changed notification and every unrecognized notification is dropped.
C27_ListChangedIffMember ==
    [][TakesNotification =>
        ListChangedRule(
            init.resp.cap.prompts.some /\ init.resp.cap.prompts.listChanged # Absent,
            init.resp.cap.tools.some /\ init.resp.cap.tools.listChanged # Absent)]_vars

\* the dispatcher refetches the prompts of a server that sent listChanged: false
C27_Witness ==
    /\ disp.pc = "fetch_prompts"
    /\ init.resp.cap.prompts.listChanged = JBool(FALSE)
    /\ fetches.prompts >= 1


\* C30: once the inbound channel of the transport is closed, the dispatcher
\* eventually terminates; a terminated dispatcher takes no message, sends
\* nothing and queues nothing; and a receive error other than Closed (a lagged
\* receiver) leaves the dispatcher at its listener, ready for the next message.
C30_DispatcherTerminates ==
    /\ (inbound_closed /\ disp.pc # "unspawned") ~> (disp.pc = "terminated")
    /\ [][disp.pc = "terminated" =>
            UNCHANGED <<disp, disp_q, outbox, sampling_chan, is_prompts_out_of_date>>]_vars
    /\ [][lagged' = lagged + 1 => (disp'.pc = "recv" /\ "dispatcher" \in spawned')]_vars


(***************************************************************************)
(* The dispatcher of a peer with a sampling sender whose server sends      *)
(* sampling requests, other requests and notifications, over a transport   *)
(* that stays open.                                                        *)
(***************************************************************************)
InitParked ==
    FromConfig("open",
               InitState("notify",
                         InitializeResponse(ClientVersion, TRUE, TRUE,
                                            ServerCapabilities(Feature(JBool(TRUE)),
                                                               Feature(JBool(TRUE)))), ""))

NextParked ==
    \/ InitNotify(TRUE)
    \/ \E task \in BackgroundTasks, outcome \in FetchOutcomes : Prefetch(task, outcome)
    \/ \E m \in NotificationMethods : ServerNotify(m)
    \/ \E m \in ServerMethods : ServerSendRequest(m, ValidSamplingParams)
    \/ DispatcherRecv
    \/ DispatcherVerdict
    \/ HolderTake
    \/ \E rid \in held, v \in Verdicts : send_approval_result(rid, v)
    \/ \E rid \in held : HolderDrop(rid)
    \/ DispatcherNotification
    \/ \E outcome \in FetchOutcomes : DispatcherFetched(outcome)

\* the dispatcher task is scheduled whenever it can take a step and the list
\* requests of its fetch functions return; nothing makes the holder of a
\* pending sampling request resolve it
SpecParked == InitParked /\ [][NextParked]_vars /\ FairDispatcher

\* the message at the head of the dispatcher's subscription is a list_changed
\* notification that the dispatcher answers with a fetch
RefetchQueued(arm) ==
    /\ disp_q # <<>>
    /\ Head(disp_q).kind = "Notification"
    /\ OnNotification(Head(disp_q).method, list_changed_supported) = arm

\* C36: the dispatcher goes on with the messages that arrive while a sampling
\* request waits for its verdict: every request with another method that the
\* server has sent is eventually answered with error -32601, and a supported
\* list_changed notification at the head of the dispatcher's subscription
\* eventually starts its fetch, whether or not a verdict ever arrives.
C36_DispatcherKeepsProcessing ==
    /\ \A i \in 1..MaxServerRequests :
        (i \in DOMAIN server_reqs /\ server_reqs[i].method # SamplingMethod)
            ~> (\E k \in RepliesTo(i) : outbox[k].error.code = -32601)
    /\ \A n \in 0..MaxNotifications :
        (RefetchQueued("fetch_prompts") /\ fetches.prompts = n) ~> (fetches.prompts > n)
    /\ \A n \in 0..MaxNotifications :
        (RefetchQueued("fetch_tools") /\ fetches.tools = n) ~> (fetches.tools > n)

\* the part of C36 that does not depend on the verdict: with no sampling
\* request waiting, the dispatcher takes the message at the head of its
\* subscription
C36_IdleDispatcherProcesses ==
    (disp.pc = "recv" /\ disp_q # <<>>) ~> (disp.pc # "recv" \/ disp_q = <<>> \/ outbox # <<>>)


\* the requests of the server the dispatcher has taken from its subscription
Received == {i \in DOMAIN server_reqs : \A j \in DOMAIN disp_q : disp_q[j] # server_reqs[i]}

\* C37: every response the client has sent carries the id of a request the
\* dispatcher has received, and no request has more than one response; a
\* sampling/createMessage request whose verdict the handler has taken, or
\* whose closed reply slot it has seen, has exactly one response, and a
\* verdict sent on the reply slot or a dropped reply slot leads to that one
\* response.
C37_OneResponsePerRequest ==
    /\ [](\A k \in DOMAIN outbox : outbox[k].id \in Received)
    /\ [](\A i \in DOMAIN server_reqs : Cardinality(RepliesTo(i)) <= 1)
    /\ [](\A i \in DOMAIN server_reqs :
            slot[i].state \in {"received", "closed"} => Cardinality(RepliesTo(i)) = 1)
    /\ \A i \in 1..MaxServerRequests :
            (slot[i].state \in {"sent", "dropped"}) ~> (Cardinality(RepliesTo(i)) = 1)

\* a sampling request was answered after its verdict, another after its reply
\* slot was dropped
C37_Witness ==
    \E i, j \in DOMAIN server_reqs :
        /\ slot[i].state = "received"
        /\ slot[j].state = "closed"
        /\ Cardinality(RepliesTo(i)) = 1
        /\ Cardinality(RepliesTo(j)) = 1


(***************************************************************************)
(* The prompt catalog of a peer whose server changes its prompt list: the  *)
(* prefetch task of Client::init and the refetches of the dispatcher, each *)
(* a call of fetch_prompts_and_notify_with_messenger whose prompts/list    *)
(* request the server answers with the list it holds at that moment.       *)
(***************************************************************************)
\* the call of the fetch function by `task` is under way
FetchPending(task) ==
    IF task = "dispatcher" THEN disp.pc = "fetch_prompts" ELSE task \in spawned

\* the server replaces its prompt list
ServerChangePrompts(l) ==
    /\ ~inbound_closed
    /\ l # prompt_fetch.server
    /\ prompt_fetch' = [prompt_fetch EXCEPT !.server = l]
    /\ UNCHANGED <<init, notified, spawned, list_changed_supported, prompt_gets,
                   is_prompts_out_of_date, fetches, inbound_closed, handles,
                   server_process, notifications, lagged>>
    /\ UNCHANGED <<requestVars, dispatcherVars, chatVars>>

\* the server answers the prompts/list request of a call with the list it
\* holds, and `client.request("prompts/list", None).await` of that call has
\* the response
ServerAnswerList(task) ==
    /\ ~inbound_closed
    /\ FetchPending(task)
    /\ ~prompt_fetch.call[task].answered
    /\ prompt_fetch' = [prompt_fetch EXCEPT
                            !.answered = TRUE,
                            !.latest = prompt_fetch.server,
                            !.call[task] = [answered |-> TRUE, list |-> prompt_fetch.server]]
    /\ UNCHANGED <<init, notified, spawned, list_changed_supported, prompt_gets,
                   is_prompts_out_of_date, fetches, inbound_closed, handles,
                   server_process, notifications, lagged>>
    /\ UNCHANGED <<requestVars, dispatcherVars, chatVars>>

\* the call takes the write lock of prompt_gets and replaces the catalog by
\* the list of its response; the prefetch task then ends, the dispatcher
\* marks the prompts out of date and goes back to its listener
FetchWrite(task) ==
    /\ FetchPending(task)
    /\ prompt_fetch.call[task].answered
    /\ prompt_gets' = fetch_prompts([ok |-> TRUE, list |-> prompt_fetch.call[task].list])
    /\ prompt_fetch' = [prompt_fetch EXCEPT !.call[task] = NoFetch]
    /\ IF task = "dispatcher"
       THEN /\ disp' = [disp EXCEPT !.pc = "recv"]
            /\ is_prompts_out_of_date' = TRUE
            /\ UNCHANGED <<spawned, handles, server_process, fetches>>
       ELSE /\ spawned' = spawned \ {task}
            /\ handles' = handles \ {Clone(Original, task)}
            /\ server_process' = Drop(Clone(Original, task))
            /\ fetches' = [fetches EXCEPT !.prompts = @ + 1]
            /\ UNCHANGED <<disp, is_prompts_out_of_date>>
    /\ UNCHANGED <<init, notified, list_changed_supported, inbound_closed,
                   notifications, lagged>>
    /\ UNCHANGED <<disp_q, outbox, sampling_sender, sampling_chan, slot, held,
                   server_reqs>>
    /\ UNCHANGED <<requestVars, chatVars>>

InitCatalog ==
    FromConfig("none",
               InitState("notify",
                         InitializeResponse(ClientVersion, TRUE, TRUE,
                                            ServerCapabilities(Feature(JBool(TRUE)),
                                                               NoFeature)), ""))

NextCatalog ==
    \/ InitNotify(TRUE)
    \/ \E l \in PromptLists : ServerChangePrompts(l)
    \/ \E m \in {"notifications/prompts/list_changed", "notifications/message"} :
            ServerNotify(m)
    \/ DispatcherNotification
    \/ \E task \in FetchTasks : ServerAnswerList(task)
    \/ \E task \in FetchTasks : FetchWrite(task)

SpecCatalog == InitCatalog /\ [][NextCatalog]_vars

\* no call of the fetch function is under way
FetchesDone ==
    /\ notified
    /\ \A task \in FetchTasks : ~FetchPending(task)

\* C39: when the prefetch and at least one refetch have run and no fetch is
\* under way, the prompt catalog is the list of the server's most recent
\* prompts/list answer.
C39_CatalogFresh ==
    (FetchesDone /\ fetches.prompts >= 2) => prompt_gets = prompt_fetch.latest

\* the part of C39 about fetches that do not overlap: when the call that
\* received the most recent answer is the one that wrote last, the catalog is
\* that answer
C39_LastWriterWins ==
    [][\A task \in FetchTasks :
        (FetchPending(task) /\ ~FetchPending(task)' /\ prompt_fetch.call[task].answered)
            => prompt_gets' = prompt_fetch.call[task].list]_vars


(***************************************************************************)
(* One caller of request whose sends and receives may time out, over a     *)
(* transport whose inbound side may close.                                 *)
(***************************************************************************)
TimeoutMethods == {"tools/list", "get_env_vars"}

NextTimeout ==
    \/ \E m \in TimeoutMethods : RequestStart(1, m, MaxPageIds)
    \/ RequestSend(1)
    \/ RequestSendTimeout(1)
    \/ RequestSubscribe(1)
    \/ RequestRecv(1, MaxPageIds)
    \/ RequestRecvClosed(1)
    \/ RequestPageSend(1)
    \/ RequestTimeout(1)
    \/ \E r \in pending : ServerRespond(r)
    \/ \E msg \in UnsolicitedMessages : ServerUnsolicited(msg)
    \/ TransportClose

\* the caller's task is scheduled, a send completes or times out, and the timer
\* of time::timeout around the receive loop fires
FairRequest ==
    /\ WF_vars(RequestSend(1) \/ RequestSendTimeout(1))
    /\ WF_vars(RequestSubscribe(1))
    /\ WF_vars(RequestPageSend(1) \/ RequestSendTimeout(1))
    /\ WF_vars(RequestTimeout(1))

SpecTimeout == InitRequest /\ [][NextTimeout]_vars /\ FairRequest

=============================================================================
